---- MODULE Spec2Model ----
(***************************************************************************)
(* Model of the agent scheduler of the ERP task system (src/backend):      *)
(* the store (tasks, notifications, audit log, agent health records), the  *)
(* SQLAlchemy unit of work each agent cycle opens, the four agents' run()  *)
(* methods and the user endpoints that race with them.                     *)
(*                                                                         *)
(* Time is counted in whole hours.  A cycle is split at its store          *)
(* round-trips: Begin (queries and in-memory mutations), Commit, the       *)
(* health-record read and commit, and the error handler's read and commit. *)
(* Every store round-trip may fail (store unreachable / locked).           *)
(***************************************************************************)
EXTENDS Integers, Sequences, FiniteSets, TLC

VARIABLES
    now,        \* datetime.utcnow(), in hours
    users,      \* users table: id -> [role, is_active]
    tasks,      \* tasks table: id -> row
    notifs,     \* notifications table, in id order (id = index)
    audits,     \* audit_logs table, in id order
    health,     \* agent_status table: agent name -> row
    sess,       \* one SQLAlchemy session per running cycle: <<agent, context>> -> unit of work
    started,    \* number of cycles started so far, per agent
    autoflush,  \* SessionLocal's autoflush setting (database.py)
    attempts,   \* delivery attempts handed to the transport so far, per notification id
    faults,     \* store round-trips that have failed so far
    scheduler,  \* scheduler.py's global: "none", "running" or "stopped"
    loop,       \* what the event loop thread is executing, and its last reply
    events      \* the change messages the latest flush handed to the WebSocket manager

vars == <<now, users, tasks, notifs, audits, health, sess, started, autoflush, attempts,
          faults, scheduler, loop, events>>

----------------------------------------------------------------------------
(* Bounds of the model *)

NumTasks == 2
MaxTime == 1
MaxCycles == 2
MaxUserRequests == 1
MaxFaults == 2
MaxWorkers == 1
MaxDeps == 4

----------------------------------------------------------------------------
(* Program constants *)

NULL == -1

ESCALATION_THRESHOLD_HOURS == 0
CONFIDENCE_ESCALATION_THRESHOLD == 30
NO_PROGRESS_DAYS == 3
DEFAULT_MAX_RETRIES == 3
DEFAULT_CONFIDENCE == 100
DEFAULT_PRIORITY_SCORE == 50
LOW_CONFIDENCE_THRESHOLD == 40

REMINDER_HOURS == <<24, 8, 2>>

\* the instant the model starts at: late enough for a task to be stale
StartTime == NO_PROGRESS_DAYS * 24

AgentNames == {"PlanningAgent", "RiskAgent", "EscalationAgent", "NotificationAgent"}

\* "timer": the APScheduler job (one instance per job at a time);
\* "manual": run_agent_manually, executed on the event loop thread.
Contexts == {"timer", "manual"}

Runners == AgentNames \X Contexts

TaskStatus == {"pending", "in_progress", "completed", "overdue", "escalated"}

TaskPriority == {"low", "medium", "high", "critical"}

NotificationStatus == {"pending", "sent", "failed", "retrying"}

UserIds == 1..3

TaskIds == 1..NumTasks

----------------------------------------------------------------------------
(* Helpers *)

RECURSIVE SortedSeq(_)
\* the rows of a query in primary-key order
SortedSeq(S) ==
    IF S = {} THEN <<>>
    ELSE LET m == CHOOSE x \in S : \A y \in S : x <= y
         IN  <<m>> \o SortedSeq(S \ {m})

RECURSIVE Flatten(_)
Flatten(ss) == IF ss = <<>> THEN <<>> ELSE Head(ss) \o Flatten(Tail(ss))

Prefix(s, k) == SubSeq(s, 1, k)

Min(a, b) == IF a < b THEN a ELSE b

Max(a, b) == IF a > b THEN a ELSE b

Range(s) == {s[i] : i \in DOMAIN s}

----------------------------------------------------------------------------
(* Rows *)

NewTask(title, priority, due, assignee, creator, at) ==
    [ title |-> title, priority |-> priority, status |-> "pending",
      due_date |-> due, confidence_score |-> DEFAULT_CONFIDENCE,
      priority_score |-> DEFAULT_PRIORITY_SCORE, is_escalated |-> FALSE,
      escalated_to |-> NULL, assigned_to |-> assignee, created_by |-> creator,
      created_at |-> at, updated_at |-> at, completed_at |-> NULL,
      dependencies |-> {} ]

\* A notification row.  The message text is kept as the parts it is formatted
\* from: the task title, the reminder offset and the escalation reason.
\* att is bookkeeping of the model: the delivery attempts made on the object
\* before it has an id.
NewNotification(type, title, hours, reason, channel, user, task, sched) ==
    [ type |-> type, title |-> title, hours |-> hours, reason |-> reason,
      channel |-> channel, status |-> "pending", retry_count |-> 0,
      max_retries |-> DEFAULT_MAX_RETRIES, scheduled_at |-> sched,
      sent_at |-> NULL, user_id |-> user, task_id |-> task, is_read |-> FALSE, att |-> 0 ]

NewAuditLog(action, etype, eid, agent, user, details) ==
    [ action |-> action, entity_type |-> etype, entity_id |-> eid,
      agent_involved |-> agent, user_id |-> user, details |-> details ]

NewAgentStatus ==
    [ last_run |-> NULL, tasks_processed |-> 0, errors_count |-> 0, last_error |-> "" ]

----------------------------------------------------------------------------
(* The unit of work (SQLAlchemy Session) of one cycle *)

\* pc: idle -> loaded -> committed -> health -> idle, or from any of them
\* -> handler -> handler2 -> idle, or -> raised when the handler itself fails.
\* tload/nload/hload: rows as loaded; tobj/nobj/hobj: the same objects as
\* mutated in memory; newN/newAud: objects added with db.add; seen: the count
\* the cycle adds to tasks_processed; err: str(e) of the caught exception.
IdleSess ==
    [ pc |-> "idle", tload |-> <<>>, tobj |-> <<>>, nload |-> <<>>, nobj |-> <<>>,
      newN |-> <<>>, newAud |-> <<>>, hload |-> NewAgentStatus, hobj |-> NewAgentStatus,
      seen |-> 0, err |-> "" ]

\* UPDATE ... SET only the attributes whose value differs from the loaded one
ApplyRow(row, loaded, obj) ==
    [f \in DOMAIN row |-> IF obj[f] # loaded[f] THEN obj[f] ELSE row[f]]

\* Task.updated_at has onupdate=datetime.utcnow
FlushTasks(s) ==
    [t \in DOMAIN tasks |->
        IF t \in DOMAIN s.tobj /\ s.tobj[t] # s.tload[t]
        THEN [ApplyRow(tasks[t], s.tload[t], s.tobj[t]) EXCEPT !.updated_at = now]
        ELSE tasks[t]]

StripAtt(n) == [n EXCEPT !.att = 0]

FlushNotifs(s) ==
    [i \in DOMAIN notifs |->
        IF i \in DOMAIN s.nobj THEN ApplyRow(notifs[i], s.nload[i], s.nobj[i]) ELSE notifs[i]]
    \o [i \in DOMAIN s.newN |-> StripAtt(s.newN[i])]

FlushAttempts(s) == attempts \o [i \in DOMAIN s.newN |-> s.newN[i].att]

\* An audit entry about a notification the same session inserts carries the
\* position j of that object among the session's new ones as NULL - j; the
\* flush that assigns the ids turns it into the row's id.
FlushAudits(s) ==
    audits \o [i \in DOMAIN s.newAud |->
                 IF s.newAud[i].entity_id < NULL
                 THEN [s.newAud[i] EXCEPT !.entity_id = Len(notifs) + (NULL - @)]
                 ELSE s.newAud[i]]

\* the messages of main.py's mapper listeners: after_insert / after_update of
\* Task and Notification, after_insert of AuditLog
task_after_change(t) == [type |-> "TASK_UPDATE", id |-> t]

notification_after_change(i) == [type |-> "NOTIFICATION_UPDATE", id |-> i]

audit_log_after_insert(i) == [type |-> "AUDIT_LOG", id |-> i]

\* ConnectionManager.broadcast_sync in a thread of context c:
\* asyncio.get_event_loop() gives the running loop on the event loop thread
\* ("manual": requests, startup runs), where the broadcast is scheduled; in a
\* pool thread of the scheduler it raises RuntimeError (no current event
\* loop), which the except clause prints
broadcast_sync(c, messages) == IF c = "manual" THEN messages ELSE <<>>

\* the listeners' messages when session s is flushed: one per task row and
\* notification row updated or inserted and per audit entry inserted
FlushEvents(s) ==
    LET ts == SortedSeq({t \in DOMAIN s.tobj : s.tobj[t] # s.tload[t]})
        ns == SortedSeq({i \in DOMAIN s.nobj : s.nobj[i] # s.nload[i]})
    IN  [i \in DOMAIN ts |-> task_after_change(ts[i])]
        \o [i \in DOMAIN ns |-> notification_after_change(ns[i])]
        \o [i \in DOMAIN s.newN |-> notification_after_change(Len(notifs) + i)]
        \o [i \in DOMAIN s.newAud |-> audit_log_after_insert(Len(audits) + i)]

\* the session after commit() or rollback(): nothing pending
Cleared(s) ==
    [s EXCEPT !.tload = <<>>, !.tobj = <<>>, !.nload = <<>>, !.nobj = <<>>,
              !.newN = <<>>, !.newAud = <<>>]

\* the event loop thread is not inside run_agent_manually
EventLoopFree == \A a \in AgentNames : sess[<<a, "manual">>].pc = "idle"

\* a scheduler whose shutdown leaves the interval triggers armed
CanStartAnyTime(r) ==
    /\ sess[r].pc = "idle"
    /\ started[r[1]] < MaxCycles
    /\ r[2] = "manual" => EventLoopFree

\* APScheduler runs one instance of a job at a time, and only while the
\* scheduler is running; the manual trigger and the startup runs execute on
\* the event loop thread, one at a time.
CanStart(r) ==
    /\ sess[r].pc = "idle"
    /\ started[r[1]] < MaxCycles
    /\ r[2] = "manual" => EventLoopFree
    /\ r[2] = "timer" => scheduler = "running"

\* the startup runs of setup_scheduler, in the order of its try block
StartupOrder == <<"PlanningAgent", "RiskAgent", "NotificationAgent">>

\* the event loop thread with nothing to execute.  job: "idle", "startup"
\* (inside setup_scheduler's try block) or "request" (inside
\* run_agent_manually); ran: the agents whose run() setup_scheduler has called;
\* name: the agent_name of the last request; reply: what its caller got, "true",
\* "false" or "raised".
IdleLoop == [job |-> "idle", ran |-> <<>>, name |-> "", reply |-> ""]

\* run() of cycle r comes back to its caller, normally or (raised) with an
\* exception.  run_agent_manually returns True after agent.run(), or the
\* exception passes through it; setup_scheduler goes on to the next startup
\* run, or its except clause ends the try block.
Returned(r, raised) ==
    IF r[2] # "manual" \/ loop.job = "idle" THEN loop
    ELSE IF loop.job = "request"
         THEN [loop EXCEPT !.job = "idle", !.reply = IF raised THEN "raised" ELSE "true"]
    ELSE IF raised \/ Len(loop.ran) = Len(StartupOrder)
         THEN [loop EXCEPT !.job = "idle"]
    ELSE loop

\* a store round-trip fails (store unreachable, database locked)
StoreFails == faults < MaxFaults /\ faults' = faults + 1

StoreAnswers == faults' = faults

\* db.commit() of the cycle's mutations
Commit(r) ==
    /\ sess[r].pc = "loaded"
    /\ \/ /\ StoreAnswers
          /\ tasks' = FlushTasks(sess[r])
          /\ notifs' = FlushNotifs(sess[r])
          /\ attempts' = FlushAttempts(sess[r])
          /\ audits' = FlushAudits(sess[r])
          /\ events' = broadcast_sync(r[2], FlushEvents(sess[r]))
          /\ sess' = [sess EXCEPT ![r] = [Cleared(@) EXCEPT !.pc = "committed"]]
       \/ \* the flush or the commit fails: the transaction is rolled back
          /\ StoreFails
          /\ sess' = [sess EXCEPT ![r] = [Cleared(@) EXCEPT !.pc = "handler", !.err = "store"]]
          /\ UNCHANGED <<tasks, notifs, attempts, audits, events>>
    /\ UNCHANGED <<now, users, health, started, autoflush, scheduler, loop>>

\* a run() that updates the health record before the commit of the cycle's
\* mutations
HealthReadBeforeCommit(r) ==
    /\ sess[r].pc \in {"loaded", "committed"}
    /\ StoreAnswers
    /\ r[1] \in DOMAIN health
    /\ sess' = [sess EXCEPT ![r] =
               [@ EXCEPT !.pc = "health", !.hload = health[r[1]],
                         !.hobj = [health[r[1]] EXCEPT
                                     !.last_run = now,
                                     !.tasks_processed = @ + sess[r].seen]]]
    /\ UNCHANGED <<now, users, tasks, notifs, audits, health, started, autoflush, events, attempts,
                   scheduler, loop>>

\* agent_status = db.query(AgentStatus)...first(); last_run, tasks_processed
HealthRead(r) ==
    /\ sess[r].pc = "committed"
    /\ \/ /\ StoreAnswers
          /\ r[1] \in DOMAIN health
          /\ sess' = [sess EXCEPT ![r] =
                     [@ EXCEPT !.pc = "health", !.hload = health[r[1]],
                               !.hobj = [health[r[1]] EXCEPT
                                           !.last_run = now,
                                           !.tasks_processed = @ + sess[r].seen]]]
          /\ UNCHANGED loop
       \/ \* no record: `if agent_status:` skips the update and run() returns
          /\ StoreAnswers
          /\ r[1] \notin DOMAIN health
          /\ sess' = [sess EXCEPT ![r] = IdleSess]
          /\ loop' = Returned(r, FALSE)
       \/ /\ StoreFails
          /\ sess' = [sess EXCEPT ![r] = [@ EXCEPT !.pc = "handler", !.err = "store"]]
          /\ UNCHANGED loop
    /\ UNCHANGED <<now, users, tasks, notifs, audits, health, started, autoflush, events, attempts,
                   scheduler>>

\* the second db.commit(); then finally: db.close() and run() returns
HealthCommit(r) ==
    /\ sess[r].pc = "health"
    /\ \/ /\ StoreAnswers
          /\ health' = [health EXCEPT ![r[1]] = ApplyRow(@, sess[r].hload, sess[r].hobj)]
          /\ sess' = [sess EXCEPT ![r] = IdleSess]
          /\ loop' = Returned(r, FALSE)
       \/ /\ StoreFails
          /\ sess' = [sess EXCEPT ![r] = [@ EXCEPT !.pc = "handler", !.err = "store"]]
          /\ UNCHANGED <<health, loop>>
    /\ UNCHANGED <<now, users, tasks, notifs, audits, started, autoflush, events, attempts, scheduler>>

\* except Exception as e: agent_status = db.query(AgentStatus)...first()
HandlerRead(r) ==
    /\ sess[r].pc = "handler"
    /\ \/ /\ StoreAnswers
          /\ r[1] \in DOMAIN health
          /\ sess' = [sess EXCEPT ![r] =
                     [@ EXCEPT !.pc = "handler2", !.hload = health[r[1]],
                               !.hobj = [health[r[1]] EXCEPT
                                           !.errors_count = @ + 1,
                                           !.last_error = sess[r].err]]]
          /\ UNCHANGED loop
       \/ \* no record: nothing is counted or committed, finally closes the
          \* session and run() returns
          /\ StoreAnswers
          /\ r[1] \notin DOMAIN health
          /\ sess' = [sess EXCEPT ![r] = IdleSess]
          /\ loop' = Returned(r, FALSE)
       \/ \* the query raises inside the except block: finally closes the
          \* session and the exception leaves run()
          /\ StoreFails
          /\ sess' = [sess EXCEPT ![r] = [IdleSess EXCEPT !.pc = "raised"]]
          /\ UNCHANGED loop
    /\ UNCHANGED <<now, users, tasks, notifs, audits, health, started, autoflush, events, attempts,
                   scheduler>>

\* errors_count += 1; last_error = str(e); db.commit().  The commit flushes
\* whatever the session still holds.
HandlerCommit(r) ==
    /\ sess[r].pc = "handler2"
    /\ \/ /\ StoreAnswers
          /\ health' = [health EXCEPT ![r[1]] = ApplyRow(@, sess[r].hload, sess[r].hobj)]
          /\ tasks' = FlushTasks(sess[r])
          /\ notifs' = FlushNotifs(sess[r])
          /\ attempts' = FlushAttempts(sess[r])
          /\ audits' = FlushAudits(sess[r])
          /\ events' = broadcast_sync(r[2], FlushEvents(sess[r]))
          /\ sess' = [sess EXCEPT ![r] = IdleSess]
          /\ loop' = Returned(r, FALSE)
       \/ /\ StoreFails
          /\ sess' = [sess EXCEPT ![r] = [IdleSess EXCEPT !.pc = "raised"]]
          /\ UNCHANGED <<health, tasks, notifs, attempts, audits, loop, events>>
    /\ UNCHANGED <<now, users, started, autoflush, scheduler>>

\* a caller that an exception of run() takes down: the job instance is never
\* released
PropagateHoldsInstance(r) ==
    /\ sess[r].pc = "raised"
    /\ FALSE
    /\ UNCHANGED vars

\* the caller of run() takes the exception (APScheduler logs it, the manual
\* trigger's request fails)
Propagate(r) ==
    /\ sess[r].pc = "raised"
    /\ sess' = [sess EXCEPT ![r] = IdleSess]
    /\ loop' = Returned(r, TRUE)
    /\ UNCHANGED <<now, users, tasks, notifs, audits, health, started, autoflush, events, attempts,
                   faults, scheduler>>

\* the steps every agent's run() shares after its own queries and loop
RunnerStep(r) ==
    \/ Commit(r)
    \/ HealthRead(r)
    \/ HealthCommit(r)
    \/ HandlerRead(r)
    \/ HandlerCommit(r)
    \/ Propagate(r)

Tick ==
    /\ now < StartTime + MaxTime
    /\ now' = now + 1
    /\ UNCHANGED <<users, tasks, notifs, audits, health, sess, started, autoflush, events, attempts,
                   faults, scheduler, loop>>

----------------------------------------------------------------------------
(* Escalation agent (agents/escalation_agent.py) *)

EscalationAgentName == "EscalationAgent"

\* a decision that tests the confidence before the due date
should_escalate_confidence_first(task, at) ==
    IF task.is_escalated THEN [esc |-> FALSE, reason |-> ""]
    ELSE IF task.status = "completed" THEN [esc |-> FALSE, reason |-> ""]
    ELSE IF task.confidence_score < CONFIDENCE_ESCALATION_THRESHOLD
         THEN [esc |-> TRUE, reason |-> "low_confidence"]
    ELSE IF /\ task.due_date # NULL
            /\ task.due_date < at
            /\ at - task.due_date > ESCALATION_THRESHOLD_HOURS
         THEN [esc |-> TRUE, reason |-> "overdue"]
    ELSE IF /\ task.status = "in_progress"
            /\ task.updated_at # NULL
            /\ (at - task.updated_at) \div 24 >= NO_PROGRESS_DAYS
         THEN [esc |-> TRUE, reason |-> "no_progress"]
    ELSE [esc |-> FALSE, reason |-> ""]

\* should_escalate: (should_escalate, reason); the reason is "" for None
should_escalate(task, at) ==
    IF task.is_escalated THEN [esc |-> FALSE, reason |-> ""]
    ELSE IF task.status = "completed" THEN [esc |-> FALSE, reason |-> ""]
    ELSE IF /\ task.due_date # NULL
            /\ task.due_date < at
            /\ at - task.due_date > ESCALATION_THRESHOLD_HOURS
         THEN [esc |-> TRUE, reason |-> "overdue"]
    ELSE IF task.confidence_score < CONFIDENCE_ESCALATION_THRESHOLD
         THEN [esc |-> TRUE, reason |-> "low_confidence"]
    ELSE IF /\ task.status = "in_progress"
            /\ task.updated_at # NULL
            /\ (at - task.updated_at) \div 24 >= NO_PROGRESS_DAYS
         THEN [esc |-> TRUE, reason |-> "no_progress"]
    ELSE [esc |-> FALSE, reason |-> ""]

\* the users of a role, active or not
WithRoleActiveOrNot(role) == {u \in DOMAIN users : users[u].role = role}

ActiveWithRole(role) == {u \in DOMAIN users : users[u].role = role /\ users[u].is_active}

FirstOf(S) == CHOOSE u \in S : \A v \in S : u <= v

\* a fallback that takes any active user when no manager or admin is active
find_manager_or_anyone ==
    LET active == {u \in DOMAIN users : users[u].is_active}
        ranked == ActiveWithRole("manager") \cup ActiveWithRole("admin")
    IN  IF ranked # {} THEN FirstOf(ranked)
        ELSE IF active # {} THEN FirstOf(active)
        ELSE NULL

\* find_manager_to_escalate_to: the first active manager, else the first
\* active admin, else None
find_manager_to_escalate_to ==
    IF ActiveWithRole("manager") # {} THEN FirstOf(ActiveWithRole("manager"))
    ELSE IF ActiveWithRole("admin") # {} THEN FirstOf(ActiveWithRole("admin"))
    ELSE NULL

\* escalate_task, the task object
EscalatedTask(task, manager) ==
    [task EXCEPT !.is_escalated = TRUE, !.escalated_to = manager, !.status = "escalated"]

\* escalate_task without the test assigned_to != manager.id
EscalationNotificationsToBoth(t, task, reason, manager) ==
    << NewNotification("escalation", task.title, 0, reason, "both", manager, t, NULL),
       NewNotification("escalation", task.title, 0, reason, "desktop",
                       task.assigned_to, t, NULL) >>

\* escalate_task, the notifications it adds
EscalationNotifications(t, task, reason, manager) ==
    <<NewNotification("escalation", task.title, 0, reason, "both", manager, t, NULL)>>
    \o (IF task.assigned_to # manager
        THEN <<NewNotification("escalation", task.title, 0, reason, "desktop",
                               task.assigned_to, t, NULL)>>
        ELSE <<>>)

\* escalate_task, the audit entry it adds
EscalationAudit(t, reason) ==
    NewAuditLog("task_escalated", "task", t, EscalationAgentName, NULL, reason)

\* the rows of run()'s query: not escalated, status pending/in_progress/overdue
EscalationCandidates ==
    {t \in DOMAIN tasks :
        /\ tasks[t].is_escalated = FALSE
        /\ tasks[t].status \in {"pending", "in_progress", "overdue"}}

\* run(), from the query to the end of the loop, for the rows cand of its
\* query and the decisions decide[t] of its loop.  k is the number of triggering
\* tasks handled before a store query of the loop
\* (find_manager_to_escalate_to) fails; k = all of them when none fails.
EscalationRun(c, cand, decide) ==
    LET r == <<EscalationAgentName, c>> IN
    /\ CanStart(r)
    /\ started' = [started EXCEPT ![EscalationAgentName] = @ + 1]
    /\ \/ \* the first query fails
          /\ StoreFails
          /\ sess' = [sess EXCEPT ![r] = [@ EXCEPT !.pc = "handler", !.err = "store"]]
       \/ LET trig == SortedSeq({t \in cand : decide[t].esc})
              manager == find_manager_to_escalate_to
          IN  \E k \in 0..Len(trig) :
                /\ IF k = Len(trig) THEN StoreAnswers ELSE StoreFails
                /\ LET done == IF manager = NULL THEN {} ELSE Range(Prefix(trig, k))
                       order == SortedSeq(done)
                   IN  sess' = [sess EXCEPT ![r] =
                       [@ EXCEPT
                          !.pc = IF k = Len(trig) THEN "loaded" ELSE "handler",
                          !.err = IF k = Len(trig) THEN "" ELSE "store",
                          !.seen = Cardinality(cand),
                          !.tload = [t \in cand |-> tasks[t]],
                          !.tobj = [t \in cand |->
                                      IF t \in done THEN EscalatedTask(tasks[t], manager)
                                      ELSE tasks[t]],
                          !.newN = Flatten([i \in DOMAIN order |->
                                      EscalationNotifications(order[i], tasks[order[i]],
                                          decide[order[i]].reason, manager)]),
                          !.newAud = [i \in DOMAIN order |->
                                      EscalationAudit(order[i],
                                          decide[order[i]].reason)]]]
    /\ UNCHANGED <<now, users, tasks, notifs, audits, health, autoflush, events, attempts, scheduler>>

\* run() keyed on the status alone: neither the query nor the decision
\* looks at is_escalated
OverdueOrLowConfidence(task, at) ==
    should_escalate([task EXCEPT !.is_escalated = FALSE], at)

EscalationBeginByStatus(c) ==
    LET cand == {t \in DOMAIN tasks :
                    tasks[t].status \in {"pending", "in_progress", "overdue"}}
    IN  EscalationRun(c, cand, [t \in cand |-> OverdueOrLowConfidence(tasks[t], now)])

EscalationBegin(c) ==
    EscalationRun(c, EscalationCandidates,
        [t \in EscalationCandidates |-> should_escalate(tasks[t], now)])

----------------------------------------------------------------------------
(* Notification agent (agents/notification_agent.py) *)

NotificationAgentName == "NotificationAgent"

\* the offsets h for which the text "<h> hour" occurs in a task title
TitlePhrases(title) == IF title = "8 hour shift" THEN {8} ELSE {}

\* Notification.message.contains(f"{hours_before} hour"): the reminder text
\* "... Task '<title>' is due in <h> hours!" holds it for its own offset and
\* for the offsets the title names
MessageContains(n, h) == (n.type = "reminder" /\ n.hours = h) \/ h \in TitlePhrases(n.title)

\* create_reminder: None (here <<>>) when a reminder with that text exists
\* among the rows the session's query sees
create_reminder(rows, t, h) ==
    IF \E i \in DOMAIN rows :
          /\ rows[i].task_id = t
          /\ rows[i].type = "reminder"
          /\ MessageContains(rows[i], h)
    THEN <<>>
    ELSE <<NewNotification("reminder", tasks[t].title, h, "", "desktop",
                           tasks[t].assigned_to, t, tasks[t].due_date - h)>>

MaxReminderHours ==
    CHOOSE h \in Range(REMINDER_HOURS) : \A g \in Range(REMINDER_HOURS) : g <= h

\* the rows of schedule_upcoming_reminders' query
ReminderTasks ==
    {t \in DOMAIN tasks :
        /\ tasks[t].status \in {"pending", "in_progress"}
        /\ tasks[t].due_date > now
        /\ tasks[t].due_date <= now + MaxReminderHours + 1}

\* the (task, offset) pairs of the two loops for which the window test holds
ReminderPairs ==
    LET ts == SortedSeq(ReminderTasks)
    IN  Flatten([i \in DOMAIN ts |->
            Flatten([j \in DOMAIN REMINDER_HOURS |->
                LET hours_until_due == tasks[ts[i]].due_date - now
                    reminder_hour == REMINDER_HOURS[j]
                IN  IF hours_until_due <= reminder_hour /\ hours_until_due > reminder_hour - 1
                    THEN << <<ts[i], reminder_hour>> >>
                    ELSE <<>>])])

RECURSIVE ScheduleReminders(_, _)
\* schedule_upcoming_reminders: the reminders added, in order.  With autoflush
\* the existence query also sees the ones added earlier in the loop.
ScheduleReminders(pairs, acc) ==
    IF pairs = <<>> THEN acc
    ELSE LET rows == IF autoflush THEN notifs \o acc ELSE notifs
         IN  ScheduleReminders(Tail(pairs),
                 acc \o create_reminder(rows, Head(pairs)[1], Head(pairs)[2]))

\* filter that leaves out the status test
SendableAnyStatus(n) == n.scheduled_at # NULL /\ n.scheduled_at <= now

\* process_scheduled_notifications' filter (NULL <= now is not true in SQL)
Sendable(n) == n.status = "pending" /\ n.scheduled_at # NULL /\ n.scheduled_at <= now

\* a loop body whose failure branch leaves retry_count alone
SendPendingWithoutCount(n, ok) ==
    IF ok THEN [n EXCEPT !.status = "sent", !.sent_at = now]
    ELSE [n EXCEPT !.status = "failed"]

\* process_scheduled_notifications' loop body; ok: the delivery succeeded
SendPending(n, ok) ==
    IF ok THEN [n EXCEPT !.status = "sent", !.sent_at = now]
    ELSE [n EXCEPT !.status = "failed", !.retry_count = @ + 1]

\* filter that leaves out the cap test
RetryableAnyCount(n) == n.status = "failed"

\* retry_failed_notifications' filter
Retryable(n) == n.status = "failed" /\ n.retry_count < n.max_retries

\* retry_failed_notifications' loop body: status = RETRYING, then the
\* delivery; on failure the status is set again only when the cap is reached
RetryFailed(n, ok) ==
    IF ok THEN [n EXCEPT !.status = "sent", !.sent_at = now]
    ELSE LET rc == n.retry_count + 1
         IN  [n EXCEPT !.retry_count = rc,
                       !.status = IF rc >= n.max_retries THEN "failed" ELSE "retrying"]

\* the audit entries of retry_failed_notifications for the rows sel of w,
\* base being the number of rows that have an id
RetryAudits(w, sel, ok, base) ==
    LET order == SortedSeq(sel)
        ref(i) == IF i <= base THEN i ELSE NULL - (i - base)
    IN  Flatten([k \in DOMAIN order |->
            LET i == order[k] IN
            IF ok[i]
            THEN <<NewAuditLog("notification_retry_success", "notification", ref(i),
                               NotificationAgentName, NULL, "")>>
            ELSE IF w[i].retry_count + 1 >= w[i].max_retries
            THEN <<NewAuditLog("notification_permanently_failed", "notification", ref(i),
                               NotificationAgentName, NULL, "")>>
            ELSE <<>>])

\* run(), from schedule_upcoming_reminders to the end of
\* retry_failed_notifications.  stage is the number of the three operations
\* completed before a store query fails (3: none fails); ok2 and ok3 are the
\* delivery transport's answers.
NotificationBegin(c) ==
    LET r == <<NotificationAgentName, c>>
        base == Len(notifs)
        visible(i) == autoflush \/ i <= base
    IN
    /\ CanStart(r)
    /\ started' = [started EXCEPT ![NotificationAgentName] = @ + 1]
    /\ \E stage \in 0..3 :
         /\ IF stage = 3 THEN StoreAnswers ELSE StoreFails
         /\ \E added \in {IF stage >= 1 THEN ScheduleReminders(ReminderPairs, <<>>) ELSE <<>>} :
            \E w1 \in {notifs \o added} :
            \E sel2 \in {IF stage >= 2
                         THEN {i \in DOMAIN w1 : visible(i) /\ Sendable(w1[i])}
                         ELSE {}} :
            \E ok2 \in [sel2 -> BOOLEAN] :
            \E w2 \in {[i \in DOMAIN w1 |->
                          IF i \in sel2 THEN SendPending(w1[i], ok2[i]) ELSE w1[i]]} :
            \E sel3 \in {IF stage >= 3
                         THEN {i \in DOMAIN w2 :
                                 /\ visible(i)
                                 /\ Retryable(IF autoflush THEN w2[i] ELSE notifs[i])}
                         ELSE {}} :
            \E ok3 \in [sel3 -> BOOLEAN] :
            \E w3 \in {[i \in DOMAIN w2 |->
                          IF i \in sel3 THEN RetryFailed(w2[i], ok3[i]) ELSE w2[i]]} :
               LET tried(i) == (IF i \in sel2 THEN 1 ELSE 0) + (IF i \in sel3 THEN 1 ELSE 0)
                   touched == (sel2 \cup sel3) \cap (1..base)
               IN  /\ attempts' = [i \in DOMAIN attempts |-> attempts[i] + tried(i)]
                   /\ sess' = [sess EXCEPT ![r] =
                        [@ EXCEPT
                           !.pc = IF stage = 3 THEN "loaded" ELSE "handler",
                           !.err = IF stage = 3 THEN "" ELSE "store",
                           !.seen = Cardinality({i \in sel2 : ok2[i]})
                                    + Cardinality({i \in sel3 : ok3[i]}),
                           !.nload = [i \in touched |-> notifs[i]],
                           !.nobj = [i \in touched |-> w3[i]],
                           !.newN = [j \in 1..Len(added) |->
                                       [w3[base + j] EXCEPT !.att = tried(base + j)]],
                           !.newAud = RetryAudits(w2, sel3, ok3, base)]]
    /\ UNCHANGED <<now, users, tasks, notifs, audits, health, autoflush, events, scheduler>>

----------------------------------------------------------------------------
(* Planning agent (agents/planning_agent.py) *)

PlanningAgentName == "PlanningAgent"

\* Task.dependent_tasks: the tasks that have t among their dependencies
dependent_tasks(t) == {u \in DOMAIN tasks : t \in tasks[u].dependencies}

\* the rows of run()'s query (planning and risk agent): the active tasks
ActiveTasks == {t \in DOMAIN tasks : tasks[t].status \in {"pending", "in_progress"}}

\* priority weights that read the agent's health record
priority_weights_by_errors(priority) ==
    CASE priority = "critical" -> 25 - Min(health[PlanningAgentName].errors_count, 1)
      [] priority = "high" -> 20 - Min(health[PlanningAgentName].errors_count, 1)
      [] priority = "medium" -> 10 - Min(health[PlanningAgentName].errors_count, 1)
      [] priority = "low" -> 5 - Min(health[PlanningAgentName].errors_count, 1)
      [] OTHER -> 10

priority_weights(priority) ==
    CASE priority = "critical" -> 25
      [] priority = "high" -> 20
      [] priority = "medium" -> 10
      [] priority = "low" -> 5
      [] OTHER -> 10

\* a priority score that counts every dependent, without the cap of 15
priority_score_uncapped_dependents(task, dependent_count, at) ==
    LET time_remaining == task.due_date - at
        urgency == IF time_remaining < 0 THEN 30
                   ELSE IF time_remaining < 24 THEN 25
                   ELSE IF time_remaining < 48 THEN 20
                   ELSE IF time_remaining < 72 THEN 15
                   ELSE IF time_remaining < 168 THEN 10
                   ELSE 0
        age_days == (at - task.created_at) \div 24
        score == 50 + urgency + priority_weights(task.priority)
                 + dependent_count * 5 + Min(age_days, 10)
    IN  Min(score, 100)

\* calculate_priority_score, with dependent_count = len(task.dependent_tasks)
calculate_priority_score(task, dependent_count, at) ==
    LET time_remaining == task.due_date - at
        urgency == IF time_remaining < 0 THEN 30
                   ELSE IF time_remaining < 24 THEN 25
                   ELSE IF time_remaining < 48 THEN 20
                   ELSE IF time_remaining < 72 THEN 15
                   ELSE IF time_remaining < 168 THEN 10
                   ELSE 0
        age_days == (at - task.created_at) \div 24
        score == 50 + urgency + priority_weights(task.priority)
                 + Min(dependent_count * 5, 15) + Min(age_days, 10)
    IN  Min(score, 100)

\* a planning loop that stores every score that differs from the stored one
PlanningBeginAnyChange(c) ==
    LET r == <<PlanningAgentName, c>> IN
    /\ CanStart(r)
    /\ started' = [started EXCEPT ![PlanningAgentName] = @ + 1]
    /\ \/ \* the first query fails
          /\ StoreFails
          /\ sess' = [sess EXCEPT ![r] = [@ EXCEPT !.pc = "handler", !.err = "store"]]
       \/ \E order \in {SortedSeq(ActiveTasks)} :
          \E k \in 0..Len(order) :
            /\ IF k = Len(order) THEN StoreAnswers ELSE StoreFails
            /\ LET new_score(t) == calculate_priority_score(tasks[t],
                                       Cardinality(dependent_tasks(t)), now)
                   old_score(t) == tasks[t].priority_score
                   updated(t) == new_score(t) # old_score(t)
                   logged == SelectSeq(Prefix(order, k),
                                LAMBDA t : updated(t) /\ new_score(t) - old_score(t) > 10)
               IN  sess' = [sess EXCEPT ![r] =
                     [@ EXCEPT
                        !.pc = IF k = Len(order) THEN "loaded" ELSE "handler",
                        !.err = IF k = Len(order) THEN "" ELSE "store",
                        !.seen = Len(order),
                        !.tload = [t \in ActiveTasks |-> tasks[t]],
                        !.tobj = [t \in ActiveTasks |->
                                    IF t \in Range(Prefix(order, k)) /\ updated(t)
                                    THEN [tasks[t] EXCEPT !.priority_score = new_score(t)]
                                    ELSE tasks[t]],
                        !.newAud = [i \in DOMAIN logged |->
                                      NewAuditLog("priority_increased", "task", logged[i],
                                                  PlanningAgentName, NULL, "score")]]]
    /\ UNCHANGED <<now, users, tasks, notifs, audits, health, autoflush, events, attempts, scheduler>>

\* run(), from the query to the end of the loop.  k is the number of tasks
\* scored before a store query of the loop (the load of task.dependent_tasks)
\* fails; k = all of them when none fails.
PlanningBegin(c) ==
    LET r == <<PlanningAgentName, c>> IN
    /\ CanStart(r)
    /\ started' = [started EXCEPT ![PlanningAgentName] = @ + 1]
    /\ \/ \* the first query fails
          /\ StoreFails
          /\ sess' = [sess EXCEPT ![r] = [@ EXCEPT !.pc = "handler", !.err = "store"]]
       \/ \E order \in {SortedSeq(ActiveTasks)} :
          \E k \in 0..Len(order) :
            /\ IF k = Len(order) THEN StoreAnswers ELSE StoreFails
            /\ LET new_score(t) == calculate_priority_score(tasks[t],
                                       Cardinality(dependent_tasks(t)), now)
                   old_score(t) == tasks[t].priority_score
                   updated(t) == new_score(t) - old_score(t) > 1
                                 \/ old_score(t) - new_score(t) > 1
                   logged == SelectSeq(Prefix(order, k),
                                LAMBDA t : updated(t) /\ new_score(t) - old_score(t) > 10)
               IN  sess' = [sess EXCEPT ![r] =
                     [@ EXCEPT
                        !.pc = IF k = Len(order) THEN "loaded" ELSE "handler",
                        !.err = IF k = Len(order) THEN "" ELSE "store",
                        !.seen = Len(order),
                        !.tload = [t \in ActiveTasks |-> tasks[t]],
                        !.tobj = [t \in ActiveTasks |->
                                    IF t \in Range(Prefix(order, k)) /\ updated(t)
                                    THEN [tasks[t] EXCEPT !.priority_score = new_score(t)]
                                    ELSE tasks[t]],
                        !.newAud = [i \in DOMAIN logged |->
                                      NewAuditLog("priority_increased", "task", logged[i],
                                                  PlanningAgentName, NULL, "score")]]]
    /\ UNCHANGED <<now, users, tasks, notifs, audits, health, autoflush, events, attempts, scheduler>>

----------------------------------------------------------------------------
(* Risk agent (agents/risk_agent.py) *)

RiskAgentName == "RiskAgent"

\* a confidence score whose whole dependency penalty is capped at 30
confidence_score_capped_dependencies(task, deps, at) ==
    LET time_remaining == task.due_date - at
        time_penalty == IF time_remaining < 0 THEN 40
                        ELSE IF time_remaining < 8 THEN 30
                        ELSE IF time_remaining < 24 THEN 20
                        ELSE IF time_remaining < 48 THEN 10
                        ELSE 0
        incomplete == {i \in DOMAIN deps : deps[i].status # "completed"}
        risky == {i \in incomplete : deps[i].confidence_score < 50}
        priority_penalty == IF task.priority = "critical" THEN 10
                            ELSE IF task.priority = "high" THEN 5
                            ELSE 0
        days_until_due == (task.due_date - at) \div 24
        status_penalty == IF /\ task.status = "pending"
                             /\ days_until_due < 2
                             /\ task.priority \in {"high", "critical"}
                          THEN 15 ELSE 0
        score == 100 - time_penalty
                 - Min(10 * Cardinality(risky) + Cardinality(incomplete) * 10, 30)
                 - priority_penalty - status_penalty
    IN  Max(0, Min(100, score))

\* calculate_confidence_score; deps: the rows of task.dependencies as the
\* session holds them, in id order
calculate_confidence_score(task, deps, at) ==
    LET time_remaining == task.due_date - at
        time_penalty == IF time_remaining < 0 THEN 40
                        ELSE IF time_remaining < 8 THEN 30
                        ELSE IF time_remaining < 24 THEN 20
                        ELSE IF time_remaining < 48 THEN 10
                        ELSE 0
        incomplete == {i \in DOMAIN deps : deps[i].status # "completed"}
        risky == {i \in incomplete : deps[i].confidence_score < 50}
        priority_penalty == IF task.priority = "critical" THEN 10
                            ELSE IF task.priority = "high" THEN 5
                            ELSE 0
        days_until_due == (task.due_date - at) \div 24
        status_penalty == IF /\ task.status = "pending"
                             /\ days_until_due < 2
                             /\ task.priority \in {"high", "critical"}
                          THEN 15 ELSE 0
        score == 100 - time_penalty - 10 * Cardinality(risky)
                 - Min(Cardinality(incomplete) * 10, 30)
                 - priority_penalty - status_penalty
    IN  Max(0, Min(100, score))

RECURSIVE RiskLoopOnStoredRows(_, _)
\* a loop that scores each task against its dependencies as the store holds
\* them, not as the loop has rescored them
RiskLoopOnStoredRows(order, objs) ==
    IF order = <<>> THEN objs
    ELSE LET t == Head(order)
             ids == SortedSeq(objs[t].dependencies \cap DOMAIN tasks)
             deps == [i \in DOMAIN ids |-> tasks[ids[i]]]
             old_score == objs[t].confidence_score
             new_score == calculate_confidence_score(objs[t], deps, now)
         IN  RiskLoopOnStoredRows(Tail(order),
                 IF new_score - old_score > 2 \/ old_score - new_score > 2
                 THEN [objs EXCEPT ![t].confidence_score = new_score]
                 ELSE objs)

RECURSIVE RiskLoop(_, _)
\* run()'s loop over the tasks order: the session's task objects objs after
\* it.  A dependency the query did not return is loaded from the store.
RiskLoop(order, objs) ==
    IF order = <<>> THEN objs
    ELSE LET t == Head(order)
             ids == SortedSeq(objs[t].dependencies \cap DOMAIN tasks)
             deps == [i \in DOMAIN ids |->
                        IF ids[i] \in DOMAIN objs THEN objs[ids[i]] ELSE tasks[ids[i]]]
             old_score == objs[t].confidence_score
             new_score == calculate_confidence_score(objs[t], deps, now)
         IN  RiskLoop(Tail(order),
                 IF new_score - old_score > 2 \/ old_score - new_score > 2
                 THEN [objs EXCEPT ![t].confidence_score = new_score]
                 ELSE objs)

\* run(), from the query to the end of the loop.  k is the number of tasks
\* assessed before a store query of the loop (the load of task.dependencies)
\* fails; k = all of them when none fails.
RiskBegin(c) ==
    LET r == <<RiskAgentName, c>> IN
    /\ CanStart(r)
    /\ started' = [started EXCEPT ![RiskAgentName] = @ + 1]
    /\ \/ \* the first query fails
          /\ StoreFails
          /\ sess' = [sess EXCEPT ![r] = [@ EXCEPT !.pc = "handler", !.err = "store"]]
       \/ \E order \in {SortedSeq(ActiveTasks)} :
          \E k \in 0..Len(order) :
          \E objs \in {RiskLoop(Prefix(order, k), [t \in ActiveTasks |-> tasks[t]])} :
            /\ IF k = Len(order) THEN StoreAnswers ELSE StoreFails
            /\ LET flagged == SelectSeq(Prefix(order, k), LAMBDA t :
                                /\ objs[t].confidence_score # tasks[t].confidence_score
                                /\ objs[t].confidence_score < LOW_CONFIDENCE_THRESHOLD
                                /\ tasks[t].confidence_score >= LOW_CONFIDENCE_THRESHOLD)
               IN  sess' = [sess EXCEPT ![r] =
                     [@ EXCEPT
                        !.pc = IF k = Len(order) THEN "loaded" ELSE "handler",
                        !.err = IF k = Len(order) THEN "" ELSE "store",
                        !.seen = Len(order),
                        !.tload = [t \in ActiveTasks |-> tasks[t]],
                        !.tobj = objs,
                        !.newN = [i \in DOMAIN flagged |->
                                    NewNotification("alert", tasks[flagged[i]].title, 0, "",
                                                    "desktop", tasks[flagged[i]].assigned_to,
                                                    flagged[i], NULL)],
                        !.newAud = [i \in DOMAIN flagged |->
                                      NewAuditLog("high_risk_detected", "task", flagged[i],
                                                  RiskAgentName, NULL, "score")]]]
    /\ UNCHANGED <<now, users, tasks, notifs, audits, health, autoflush, events, attempts, scheduler>>

----------------------------------------------------------------------------
(* User endpoints (routers/tasks.py).  async def: they run on the event     *)
(* loop thread, so never inside a manually triggered cycle.                 *)

UserRequests == Cardinality({i \in DOMAIN audits : audits[i].user_id # NULL})

\* PATCH /api/tasks/{task_id}/status
update_task_status(t, st, user) ==
    /\ EventLoopFree
    /\ UserRequests < MaxUserRequests
    /\ t \in DOMAIN tasks
    /\ LET upd == [tasks[t] EXCEPT !.status = st,
                       !.completed_at = IF st = "completed" THEN now ELSE @]
       IN  tasks' = [tasks EXCEPT ![t] =
                       IF upd # @ THEN [upd EXCEPT !.updated_at = now] ELSE @]
    /\ audits' = audits \o <<NewAuditLog("task_status_changed", "task", t, "", user, st)>>
    /\ events' = broadcast_sync("manual", <<task_after_change(t),
                                            audit_log_after_insert(Len(audits) + 1)>>)
    /\ UNCHANGED <<now, users, notifs, health, sess, started, autoflush, attempts, faults,
                   scheduler, loop>>

----------------------------------------------------------------------------
(* Scheduler (scheduler.py) and application lifecycle (main.py) *)

\* agent.run(), from its first query to the end of its loop
AgentBegin(a, c) ==
    \/ a = PlanningAgentName /\ PlanningBegin(c)
    \/ a = RiskAgentName /\ RiskBegin(c)
    \/ a = EscalationAgentName /\ EscalationBegin(c)
    \/ a = NotificationAgentName /\ NotificationBegin(c)

\* the jobs that occupy a thread of the scheduler's pool
RunningJobs == {a \in AgentNames : sess[<<a, "timer">>].pc # "idle"}

\* an interval trigger fires and the job's run() starts in a pool thread
TimerFires(a) ==
    /\ Cardinality(RunningJobs) < MaxWorkers
    /\ AgentBegin(a, "timer")
    /\ UNCHANGED loop

\* setup_scheduler up to its try block: the jobs are added and the scheduler
\* is started
setup_scheduler ==
    /\ scheduler = "none"
    /\ loop.job = "idle"
    /\ scheduler' = "running"
    /\ loop' = [IdleLoop EXCEPT !.job = "startup"]
    /\ UNCHANGED <<now, users, tasks, notifs, audits, health, sess, started, autoflush, events,
                   attempts, faults>>

\* the next run() call of setup_scheduler's try block
StartupRun ==
    /\ loop.job = "startup"
    /\ Len(loop.ran) < Len(StartupOrder)
    /\ LET a == StartupOrder[Len(loop.ran) + 1]
       IN  /\ AgentBegin(a, "manual")
           /\ loop' = [loop EXCEPT !.ran = Append(@, a)]

\* shutdown_scheduler: scheduler.shutdown(wait=False)
shutdown_scheduler ==
    /\ scheduler = "running"
    /\ loop.job = "idle"
    /\ EventLoopFree
    /\ scheduler' = "stopped"
    /\ UNCHANGED <<now, users, tasks, notifs, audits, health, sess, started, autoflush, events,
                   attempts, faults, loop>>

\* the keys of run_agent_manually's dictionary
agents ==
    [ planning |-> PlanningAgentName, risk |-> RiskAgentName,
      escalation |-> EscalationAgentName, notification |-> NotificationAgentName ]

\* the agent_name values the model's requests carry
AgentNameInputs == {"Risk", "ESCALATION", "PlanningAgent"}

\* str.lower() on those values
Lower(name) ==
    CASE name = "Risk" -> "risk"
      [] name = "ESCALATION" -> "escalation"
      [] name = "PlanningAgent" -> "planningagent"
      [] OTHER -> name

\* POST /api/scheduler/run/{agent_name}: run_agent_manually up to the end of
\* the loop of agent.run(), or its return False
run_agent_manually(agent_name) ==
    /\ scheduler = "running"
    /\ loop.job = "idle"
    /\ EventLoopFree
    /\ IF Lower(agent_name) \in DOMAIN agents
       THEN /\ AgentBegin(agents[Lower(agent_name)], "manual")
            /\ loop' = [loop EXCEPT !.job = "request", !.name = agent_name, !.reply = ""]
       ELSE /\ loop' = [loop EXCEPT !.name = agent_name, !.reply = "false"]
            /\ UNCHANGED <<now, users, tasks, notifs, audits, health, sess, started,
                           autoflush, events, attempts, faults, scheduler>>

----------------------------------------------------------------------------
(* Specification of the escalation agent racing with status updates *)

\* init_database's users: 1 admin, 2 manager, 3 user; either of the first
\* two may have been deactivated since
InitUsers ==
    {[u \in UserIds |->
        [role |-> IF u = 1 THEN "admin" ELSE IF u = 2 THEN "manager" ELSE "user",
         is_active |-> IF u = 1 THEN a ELSE IF u = 2 THEN m ELSE TRUE]] :
     a \in BOOLEAN, m \in BOOLEAN}

\* tasks as create_task, the risk agent and status updates leave them
EscalationTasks ==
    { [NewTask("t", "medium", StartTime - 5, 3, 3, StartTime - 10)
          EXCEPT !.status = "in_progress", !.confidence_score = 80],
      [NewTask("t", "medium", StartTime + 100, 2, 3, StartTime)
          EXCEPT !.confidence_score = 20],
      NewTask("t", "medium", StartTime, 3, 3, StartTime) }

InitStore ==
    /\ now = StartTime
    /\ audits = <<>>
    /\ health = [a \in AgentNames |-> NewAgentStatus]
    /\ sess = [r \in Runners |-> IdleSess]
    /\ started = [a \in AgentNames |-> 0]
    /\ faults = 0
    /\ events = <<>>

\* setup_scheduler has returned and no request is being served
SchedulerRunning ==
    /\ scheduler = "running"
    /\ loop = [IdleLoop EXCEPT !.ran = StartupOrder]

InitE ==
    /\ InitStore
    /\ SchedulerRunning
    /\ notifs = <<>>
    /\ attempts = <<>>
    /\ users \in InitUsers
    /\ tasks \in [TaskIds -> EscalationTasks]
    /\ autoflush = FALSE

\* the statuses the model's requests ask for
StatusInputs == {"pending", "completed"}

NextE ==
    \/ Tick
    \/ \E c \in Contexts : EscalationBegin(c) /\ UNCHANGED loop
    \/ \E c \in Contexts : RunnerStep(<<EscalationAgentName, c>>)
    \/ \E t \in TaskIds, st \in StatusInputs : update_task_status(t, st, tasks[t].assigned_to)

SpecE == InitE /\ [][NextE]_vars

----------------------------------------------------------------------------
(* Properties of the escalation agent *)

EscalationRunners == {<<EscalationAgentName, c>> : c \in Contexts}

\* cycle r read task t before the task was escalated
LoadedBefore(r, t) == t \in DOMAIN sess[r].tload /\ ~sess[r].tload[t].is_escalated

EscNotifCount(t) ==
    Cardinality({i \in DOMAIN notifs :
        notifs[i].type = "escalation" /\ notifs[i].task_id = t})

EscAuditCount(t) ==
    Cardinality({i \in DOMAIN audits :
        audits[i].action = "task_escalated" /\ audits[i].entity_id = t})

\* the step is a user request (each appends one audit entry with a user id)
UserStep == UserRequests' # UserRequests

\* the rows a step appends to the notifications table
AddedNotifs == SubSeq(notifs', Len(notifs) + 1, Len(notifs'))

\* C5: once is_escalated is true for a task, no step of an escalation cycle
\* that read the task afterwards (or did not read it) creates a notification
\* or an audit entry for it or changes any of its fields, whatever the user
\* has made of its status in between.
EscalationIdempotent ==
    [][\A t \in TaskIds, r \in EscalationRunners :
         (tasks[t].is_escalated /\ sess'[r] # sess[r] /\ ~LoadedBefore(r, t)) =>
            /\ EscNotifCount(t)' = EscNotifCount(t)
            /\ EscAuditCount(t)' = EscAuditCount(t)
            /\ tasks'[t] = tasks[t]]_vars

\* C5 witness: a second cycle has committed while a task escalated by the
\* first one was back in status pending
EscalationIdempotentWitness ==
    \E t \in TaskIds, r \in EscalationRunners :
        /\ tasks[t].is_escalated
        /\ tasks[t].status = "pending"
        /\ EscAuditCount(t) = 1
        /\ started[EscalationAgentName] = 2
        /\ sess[r].pc = "committed"
        /\ sess[r].seen < NumTasks

\* C6: a step that sets is_escalated leaves the task with status escalated
\* and escalated_to the target, appends exactly one task_escalated audit entry
\* for it, and appends for it one notification to the target followed by one
\* to the assignee when the assignee is not the target; and a cycle whose
\* loop completes has escalated every triggering task it read when a target
\* exists.
EscalationEffect ==
    [][/\ \A t \in TaskIds :
            (~tasks[t].is_escalated /\ tasks'[t].is_escalated) =>
               LET target == find_manager_to_escalate_to
                   added == SelectSeq(AddedNotifs, LAMBDA n : n.task_id = t)
               IN  /\ target # NULL
                   /\ tasks'[t].status = "escalated"
                   /\ tasks'[t].escalated_to = target
                   /\ EscAuditCount(t)' = EscAuditCount(t) + 1
                   /\ \A i \in DOMAIN added : added[i].type = "escalation"
                   /\ [i \in DOMAIN added |-> added[i].user_id] =
                         IF tasks[t].assigned_to # target
                         THEN <<target, tasks[t].assigned_to>>
                         ELSE <<target>>
       /\ \A r \in EscalationRunners :
            (sess[r].pc = "idle" /\ sess'[r].pc = "loaded") =>
               \A t \in TaskIds :
                  ( /\ ~tasks[t].is_escalated
                    /\ tasks[t].status \in {"pending", "in_progress", "overdue"}
                    /\ \/ tasks[t].due_date < now
                       \/ tasks[t].confidence_score < CONFIDENCE_ESCALATION_THRESHOLD
                    /\ find_manager_to_escalate_to # NULL )
                  => /\ t \in DOMAIN sess'[r].tobj
                     /\ sess'[r].tobj[t].is_escalated]_vars

\* C6 witness: the overdue task of a plain user is escalated to the manager
\* with two notifications and one audit entry; a task of the manager's own
\* is escalated with one notification
EscalationEffectWitness ==
    /\ \E t \in TaskIds :
        /\ tasks[t].is_escalated
        /\ tasks[t].status = "escalated"
        /\ tasks[t].escalated_to = 2
        /\ tasks[t].assigned_to = 3
        /\ EscNotifCount(t) = 2
        /\ EscAuditCount(t) = 1
    /\ \E t \in TaskIds :
        /\ tasks[t].is_escalated
        /\ tasks[t].escalated_to = tasks[t].assigned_to
        /\ EscNotifCount(t) = 1

NoTarget ==
    ~\E u \in UserIds : users[u].is_active /\ users[u].role \in {"manager", "admin"}

\* C7: while no active manager or admin exists, no step other than a user
\* request changes a task, no notification and no agent audit entry is
\* appended, and the health record's errors_count grows only in the handler
\* of a cycle whose store round-trip failed.
NoTargetNoChange ==
    [][NoTarget =>
         /\ \A t \in TaskIds : tasks'[t] # tasks[t] => UserStep
         /\ notifs' = notifs
         /\ audits' # audits => UserStep
         /\ health'[EscalationAgentName].errors_count # health[EscalationAgentName].errors_count
              => \E r \in EscalationRunners :
                    /\ sess[r].pc = "handler2"
                    /\ sess[r].err = "store"
                    /\ faults > 0]_vars

\* C7 witness: with no target, a cycle that saw a triggering task has run to
\* the end without any store failure or recorded error
NoTargetWitness ==
    /\ NoTarget
    /\ faults = 0
    /\ health[EscalationAgentName].last_run # NULL
    /\ health[EscalationAgentName].tasks_processed > 0
    /\ health[EscalationAgentName].errors_count = 0
    /\ \E t \in TaskIds :
          /\ should_escalate(tasks[t], health[EscalationAgentName].last_run).esc
          /\ tasks[t].updated_at < health[EscalationAgentName].last_run

\* C8: no step turns is_escalated from false to true, or the status into
\* escalated, for a task whose status is completed.
CompletedNeverEscalated ==
    [][\A t \in TaskIds :
         tasks[t].status = "completed" =>
            /\ ~(~tasks[t].is_escalated /\ tasks'[t].is_escalated)
            /\ tasks'[t].status # "escalated"]_vars

\* C10: the step in which the error handler commits changes no task, no
\* notification and no audit entry: only the health record.
CycleAllOrNothing ==
    [][\A r \in EscalationRunners :
         (sess[r].pc = "handler2" /\ sess'[r].pc = "idle") =>
            /\ tasks' = tasks
            /\ notifs' = notifs
            /\ audits' = audits]_vars

----------------------------------------------------------------------------
(* Properties of overlapping cycles of one agent *)

\* cycle r is inside run()
InRun(r) == sess[r].pc \notin {"idle", "raised"}

\* C13: no two cycles of the same agent are inside run() at the same time,
\* whether started by the timer or on the event loop thread (manual trigger,
\* startup runs).
NoSameAgentOverlap ==
    \A a \in AgentNames : ~(InRun(<<a, "timer">>) /\ InRun(<<a, "manual">>))

EscNotifCountFor(t, u) ==
    Cardinality({i \in DOMAIN notifs :
        /\ notifs[i].type = "escalation"
        /\ notifs[i].task_id = t
        /\ notifs[i].user_id = u})

ReminderCount(t, h) ==
    Cardinality({i \in DOMAIN notifs :
        /\ notifs[i].type = "reminder"
        /\ notifs[i].task_id = t
        /\ notifs[i].hours = h})

\* C14: whatever the interleaving of a timer-fired and a manually triggered
\* cycle, every task has at most one task_escalated audit entry and at most
\* one escalation notification per recipient, and every (task, offset) pair has
\* at most one reminder.
NoDuplicateEffects ==
    \A t \in TaskIds :
        /\ EscAuditCount(t) <= 1
        /\ \A u \in UserIds : EscNotifCountFor(t, u) <= 1
        /\ \A j \in DOMAIN REMINDER_HOURS : ReminderCount(t, REMINDER_HOURS[j]) <= 1

\* C15: neither health counter ever decreases; the step that ends a
\* successful cycle adds that cycle's count to the stored tasks_processed,
\* and the step that ends a failed cycle adds one to the stored errors_count.
CountersExact ==
    [][\A a \in AgentNames :
         /\ health'[a].tasks_processed >= health[a].tasks_processed
         /\ health'[a].errors_count >= health[a].errors_count
         /\ \A c \in Contexts :
              LET r == <<a, c>> IN
              /\ (sess[r].pc = "health" /\ sess'[r].pc = "idle") =>
                    health'[a].tasks_processed = health[a].tasks_processed + sess[r].seen
              /\ (sess[r].pc = "handler2" /\ sess'[r].pc = "idle") =>
                    health'[a].errors_count = health[a].errors_count + 1]_vars

----------------------------------------------------------------------------
(* Specification of the notification dispatcher *)

\* the caps of the notification rows the model starts with
InitMaxRetries == 0..DEFAULT_MAX_RETRIES

\* task 1 is due in 24 h and its 24-hour reminder is pending; every other
\* task comes into the window of one of the offsets after one hour
InitN ==
    /\ InitStore
    /\ SchedulerRunning
    /\ users \in {u \in InitUsers : u[1].is_active /\ u[2].is_active}
    /\ tasks = [t \in TaskIds |->
                  IF t = 1 THEN NewTask("t", "medium", StartTime + 24, 3, 3, StartTime)
                  ELSE NewTask("t", "medium",
                               StartTime + 1 + REMINDER_HOURS[(t % 3) + 1], 3, 3, StartTime)]
    /\ \E m \in InitMaxRetries :
         /\ notifs = <<[NewNotification("reminder", "t", 24, "", "desktop", 3, 1, StartTime)
                          EXCEPT !.max_retries = m]>>
         /\ attempts = <<0>>
    /\ autoflush \in BOOLEAN

NextN ==
    \/ Tick
    \/ \E c \in Contexts : NotificationBegin(c) /\ UNCHANGED loop
    \/ \E c \in Contexts : RunnerStep(<<NotificationAgentName, c>>)

SpecN == InitN /\ [][NextN]_vars

----------------------------------------------------------------------------
(* Properties of the notification dispatcher *)

NotificationRunners == {<<NotificationAgentName, c>> : c \in Contexts}

NotifAuditCount(n, action) ==
    Cardinality({i \in DOMAIN audits :
        /\ audits[i].entity_type = "notification"
        /\ audits[i].entity_id = n
        /\ audits[i].action = action})

NotifAudits(n) ==
    Cardinality({i \in DOMAIN audits :
        audits[i].entity_type = "notification" /\ audits[i].entity_id = n})

\* C1: retry_count never exceeds max_retries, for every notification row.
RetryCountWithinCap ==
    \A n \in DOMAIN notifs : notifs[n].retry_count <= notifs[n].max_retries

IsSent(n) == n.status = "sent"

\* cycle r read notification n when the row was not yet sent
ReadBeforeSent(r, n) == n \in DOMAIN sess[r].nload /\ ~IsSent(sess[r].nload[n])

\* C2: once a notification is sent, no step of a dispatcher cycle that read
\* it afterwards (or did not read it) changes its status, retry_count or
\* sent_at.
SentIsTerminal ==
    [][\A n \in DOMAIN notifs, r \in NotificationRunners :
         (IsSent(notifs[n]) /\ sess'[r] # sess[r] /\ ~ReadBeforeSent(r, n)) =>
            /\ notifs'[n].status = "sent"
            /\ notifs'[n].retry_count = notifs[n].retry_count
            /\ notifs'[n].sent_at = notifs[n].sent_at]_vars

\* C2 witness: a notification sent at an earlier hour is still as it was
\* after a later cycle has committed
SentIsTerminalWitness ==
    \E n \in DOMAIN notifs, r \in NotificationRunners :
        /\ notifs[n].status = "sent"
        /\ notifs[n].sent_at < now
        /\ started[NotificationAgentName] = 2
        /\ sess[r].pc = "committed"
        /\ health[NotificationAgentName].last_run = notifs[n].sent_at

\* C3: a notification with the default cap that has failed and that no
\* cycle will retry any more is in status failed with retry_count =
\* max_retries and has exactly one notification_permanently_failed audit
\* entry.
RetryExhaustion ==
    \A n \in DOMAIN notifs :
        ( /\ notifs[n].max_retries = DEFAULT_MAX_RETRIES
          /\ notifs[n].status \in {"failed", "retrying"}
          /\ ~Retryable(notifs[n]) ) =>
            /\ notifs[n].status = "failed"
            /\ notifs[n].retry_count = notifs[n].max_retries
            /\ NotifAuditCount(n, "notification_permanently_failed") = 1

IsExhausted(n) == n.status = "failed" /\ n.retry_count >= n.max_retries

\* cycle r read notification n when the row was not yet exhausted
ReadBeforeExhausted(r, n) ==
    n \in DOMAIN sess[r].nload /\ ~IsExhausted(sess[r].nload[n])

\* C4: once a notification is failed with retry_count >= max_retries, no
\* step of a dispatcher cycle that read it afterwards (or did not read it)
\* changes its status or retry_count, hands it to the transport or appends an
\* audit entry for it.
ExhaustedIsTerminal ==
    [][\A n \in DOMAIN notifs, r \in NotificationRunners :
         (IsExhausted(notifs[n]) /\ sess'[r] # sess[r] /\ ~ReadBeforeExhausted(r, n)) =>
            /\ notifs'[n].status = notifs[n].status
            /\ notifs'[n].retry_count = notifs[n].retry_count
            /\ attempts'[n] = attempts[n]
            /\ NotifAudits(n)' = NotifAudits(n)]_vars

\* C4 witness: a notification that reached its cap of 2 in a retry, with its
\* audit entry, after a further cycle has run to its commit
ExhaustedIsTerminalWitness ==
    \E n \in DOMAIN notifs, r \in NotificationRunners :
        /\ notifs[n].status = "failed"
        /\ notifs[n].max_retries = 2
        /\ notifs[n].retry_count = 2
        /\ NotifAuditCount(n, "notification_permanently_failed") = 1
        /\ attempts[n] = 2
        /\ health[NotificationAgentName].last_run # NULL
        /\ sess[r].pc = "committed"

\* C9: no cycle's run() ends by raising.
RunNeverRaises ==
    \A r \in Runners : sess[r].pc # "raised"

----------------------------------------------------------------------------
(* Specification of sequential dispatcher cycles over reminders, titles and *)
(* notifications without a scheduled time                                  *)

\* POST /api/notifications/send-to-all: one pending notification per
\* recipient (the user with recipient_email, or every active user when it is
\* not given), without task and without scheduled_at
send_to_all(type, recipient) ==
    LET to == IF recipient # NULL THEN <<recipient>>
              ELSE SortedSeq({u \in DOMAIN users : users[u].is_active})
    IN
    /\ EventLoopFree
    /\ Cardinality({i \in DOMAIN notifs : notifs[i].task_id = NULL}) < MaxUserRequests
    /\ recipient # NULL => recipient \in DOMAIN users
    /\ notifs' = notifs \o [i \in DOMAIN to |->
                    NewNotification(type, "", 0, "", "desktop", to[i], NULL, NULL)]
    /\ attempts' = attempts \o [i \in DOMAIN to |-> 0]
    /\ events' = broadcast_sync("manual", [i \in DOMAIN to |->
                                            notification_after_change(Len(notifs) + i)])
    /\ UNCHANGED <<now, users, tasks, audits, health, sess, started, autoflush, faults,
                   scheduler, loop>>

\* task titles: a plain one, and one that holds the text "8 hour"
Titles == {"t", "8 hour shift"}

\* hours from StartTime to the due date: 8 (the task is in the window of the
\* 8-hour offset, and its 24-hour reminder went out 16 hours ago) or 3 (a
\* task just created, in the window of the 2-hour offset after one hour)
DueOffsets == {8, 3}

InitR ==
    /\ InitStore
    /\ SchedulerRunning
    /\ users \in {u \in InitUsers : u[1].is_active /\ u[2].is_active}
    /\ autoflush \in BOOLEAN
    /\ \E title \in [TaskIds -> Titles], due \in [TaskIds -> DueOffsets] :
         LET early == SortedSeq({t \in TaskIds : due[t] = 8}) IN
         /\ tasks = [t \in TaskIds |->
                       NewTask(title[t], "medium", StartTime + due[t], 3, 3,
                               IF due[t] = 8 THEN StartTime - 20 ELSE StartTime)]
         /\ notifs = [i \in DOMAIN early |->
                        [NewNotification("reminder", title[early[i]], 24, "", "desktop",
                                         3, early[i], StartTime - 16)
                           EXCEPT !.status = "sent", !.sent_at = StartTime - 16]]
         /\ attempts = [i \in DOMAIN early |-> 1]

\* the recipients the model's broadcasts are addressed to
RecipientInputs == {NULL, 3}

NextR ==
    \/ Tick
    \/ NotificationBegin("timer") /\ UNCHANGED loop
    \/ RunnerStep(<<NotificationAgentName, "timer">>)
    \/ \E u \in RecipientInputs : send_to_all("info", u)

SpecR == InitR /\ [][NextR]_vars

\* the reminders for (t, h) among the objects cycle r has added
PendingReminderCount(r, t, h) ==
    Cardinality({i \in DOMAIN sess[r].newN :
        /\ sess[r].newN[i].type = "reminder"
        /\ sess[r].newN[i].task_id = t
        /\ sess[r].newN[i].hours = h})

\* C12: no (task, offset) pair ever has more than one reminder, and when a
\* dispatcher cycle has scheduled reminders, every pair whose window test held
\* has exactly one reminder, stored or added by the cycle, whatever the title.
ReminderDedup ==
    [][/\ \A t \in TaskIds, j \in DOMAIN REMINDER_HOURS :
            ReminderCount(t, REMINDER_HOURS[j])' <= 1
       /\ \A r \in NotificationRunners :
            (sess[r].pc = "idle" /\ sess'[r].pc = "loaded") =>
               \A k \in DOMAIN ReminderPairs :
                  LET t == ReminderPairs[k][1]
                      h == ReminderPairs[k][2]
                  IN  ReminderCount(t, h) + PendingReminderCount(r, t, h)' = 1]_vars

\* C20: a dispatcher cycle whose three passes complete hands to the
\* transport every stored notification that is pending or retrying and whose
\* scheduled time, if it has one, has passed.
DispatcherReachesAll ==
    [][\A r \in NotificationRunners :
         (sess[r].pc = "idle" /\ sess'[r].pc = "loaded") =>
            \A n \in DOMAIN notifs :
               ( /\ notifs[n].status \in {"pending", "retrying"}
                 /\ notifs[n].scheduled_at # NULL => notifs[n].scheduled_at <= now )
               => attempts'[n] > attempts[n]]_vars

----------------------------------------------------------------------------
(* Specification of the event loop thread: application startup, manual      *)
(* triggers, shutdown                                                       *)

\* task 1 is due in 8 hours; task 2 is overdue, which takes its confidence
\* below the threshold when its priority is high or critical
InitS ==
    /\ InitStore
    /\ scheduler = "none"
    /\ loop = IdleLoop
    /\ users \in {u \in InitUsers : u[1].is_active /\ u[2].is_active}
    /\ autoflush = FALSE
    /\ \E p \in {"medium", "critical"} :
         tasks = [t \in TaskIds |->
                    IF t = 1 THEN NewTask("t", "medium", StartTime + 8, 3, 3, StartTime - 30)
                    ELSE NewTask("t", p, StartTime - 2, 2, 3, StartTime - 50)]
    /\ notifs = <<>>
    /\ attempts = <<>>

NextS ==
    \/ Tick
    \/ setup_scheduler
    \/ StartupRun
    \/ \E name \in AgentNameInputs : run_agent_manually(name)
    \/ \E a \in AgentNames : RunnerStep(<<a, "manual">>)
    \/ shutdown_scheduler

SpecS == InitS /\ [][NextS]_vars

\* C11: the step that ends a failed cycle leaves the agent's errors_count
\* one higher and its last_error equal to the exception's message; the step
\* that ends a successful cycle writes last_run, adds the cycle's count to
\* tasks_processed and leaves errors_count alone; neither touches another
\* agent's health record.
HealthRecordPerCycle ==
    [][\A r \in Runners :
         LET a == r[1]
             others == \A b \in AgentNames \ {a} : health'[b] = health[b]
         IN  /\ ( /\ sess[r].pc \in {"handler", "handler2"}
                  /\ sess'[r].pc \in {"idle", "raised"} ) =>
                    /\ health'[a].errors_count = health[a].errors_count + 1
                    /\ health'[a].last_error = sess[r].err
                    /\ others
             /\ (sess[r].pc = "health" /\ sess'[r].pc = "idle") =>
                    /\ health'[a].last_run = sess[r].hobj.last_run
                    /\ health'[a].last_run # NULL
                    /\ health'[a].tasks_processed = health[a].tasks_processed + sess[r].seen
                    /\ health'[a].errors_count = health[a].errors_count
                    /\ others]_vars

\* C16: a request with an unknown name is answered false and starts no
\* cycle and changes nothing in the store; a request with a known name
\* (whatever its case) starts one cycle of the agent named and no other; and
\* every request that started a cycle is answered true.
ManualTrigger ==
    [][/\ (loop.job = "idle" /\ loop'.reply = "false" /\ loop' # loop) =>
            /\ Lower(loop'.name) \notin DOMAIN agents
            /\ UNCHANGED <<tasks, notifs, audits, health, sess, started, attempts>>
       /\ (loop.job = "idle" /\ loop'.job = "request") =>
            /\ Lower(loop'.name) \in DOMAIN agents
            /\ LET a == agents[Lower(loop'.name)]
               IN  /\ started' = [started EXCEPT ![a] = @ + 1]
                   /\ \A r \in Runners : sess'[r] # sess[r] => r = <<a, "manual">>
       /\ (loop.job = "request" /\ loop'.job = "idle") => loop'.reply = "true"]_vars

\* C17: when setup_scheduler returns, its startup runs have started one
\* cycle each of the planning, risk and notification agents, in that order,
\* and none of the escalation agent.
StartupRunsAll ==
    [][(loop.job = "startup" /\ loop'.job = "idle") => loop'.ran = StartupOrder]_vars

----------------------------------------------------------------------------
(* Specification of the four timer jobs and the shutdown *)

InitT ==
    /\ InitStore
    /\ SchedulerRunning
    /\ users \in {u \in InitUsers : u[1].is_active /\ u[2].is_active}
    /\ autoflush = FALSE
    /\ tasks = [t \in TaskIds |->
                  IF t = 1
                  THEN [NewTask("t", "medium", StartTime + 8, 3, 3, StartTime - 30)
                           EXCEPT !.status = "completed", !.completed_at = StartTime - 1]
                  ELSE [NewTask("t", "medium", StartTime + 100, 2, 3, StartTime - 1)
                           EXCEPT !.status = "completed", !.completed_at = StartTime - 1]]
    /\ notifs = <<>>
    /\ attempts = <<>>

NextT ==
    \/ \E a \in AgentNames : TimerFires(a)
    \/ \E a \in AgentNames : RunnerStep(<<a, "timer">>)
    \/ shutdown_scheduler

SpecT == InitT /\ [][NextT]_vars

\* the interval triggers keep firing while the scheduler runs, and a pool
\* thread inside run() keeps running
TimerFairness ==
    \A a \in AgentNames :
        /\ WF_vars(TimerFires(a))
        /\ WF_vars(RunnerStep(<<a, "timer">>))

SpecTF == SpecT /\ TimerFairness

TimerRunners == {r \in Runners : r[2] = "timer"}

\* C18: once shutdown_scheduler has run, no timer-fired cycle of any agent
\* starts and the scheduler stays stopped; the shutdown call itself touches
\* neither a running cycle nor the store; and a cycle that is in progress while
\* the scheduler is stopped still runs to the end of run(), by success or by
\* failure.
ShutdownStopsTimersOnly ==
    /\ [][ /\ scheduler = "stopped" =>
               /\ scheduler' = "stopped"
               /\ started' = started
               /\ \A r \in TimerRunners : sess[r].pc = "idle" => sess'[r].pc = "idle"
           /\ (scheduler = "running" /\ scheduler' = "stopped") =>
               UNCHANGED <<sess, tasks, notifs, audits, health, attempts, started>>
         ]_vars
    /\ \A r \in TimerRunners :
          (scheduler = "stopped" /\ sess[r].pc # "idle") ~> (sess[r].pc = "idle")

\* a cycle is in progress after the scheduler was shut down
CycleInProgressAfterShutdown ==
    /\ scheduler = "stopped"
    /\ \E r \in TimerRunners : sess[r].pc \in {"loaded", "handler"}

\* the agent's cycle has raised out of run() or has recorded an error
CycleFailed(a) ==
    \/ sess[<<a, "timer">>].pc = "raised"
    \/ health[a].errors_count > 0

\* C19: after a cycle of any agent has raised or recorded an error, every
\* agent, the failing one included, that has a tick left to come gets it and
\* starts its run, unless the scheduler is shut down first; and every started
\* run ends.
FailureNeverStopsTicks ==
    /\ \A b \in AgentNames : \A k \in 0..(MaxCycles - 1) :
          ((\E a \in AgentNames : CycleFailed(a)) /\ started[b] = k /\ scheduler = "running")
             ~> (started[b] > k \/ scheduler = "stopped")
    /\ \A r \in TimerRunners : (sess[r].pc # "idle") ~> (sess[r].pc = "idle")

\* a cycle has raised out of run() while every agent has a tick left to come
RaisedWithTicksLeft ==
    /\ scheduler = "running"
    /\ \E a \in AgentNames : sess[<<a, "timer">>].pc = "raised"
    /\ \A b \in AgentNames : started[b] < MaxCycles

----------------------------------------------------------------------------
(* The scoring functions over bounded inputs: one task of every priority,   *)
(* due date, age and status, with up to MaxDeps dependencies or dependents, *)
(* scored by timer-fired planning and risk cycles                           *)

\* hours from the start to the due date: one value below, on and above each
\* bucket limit once the clock has ticked
DueOffsets2 == {-2, 0, 8, 20, 24, 48, 72, 168}

\* hours from created_at to the start: 3 days, 15 days, and a row created 59
\* days after the start (negative age)
AgeOffsets == {72, 360, -1416}

\* [n, kind, status, confidence]: n companion tasks that the first task depends
\* on ("deps") or that depend on it ("dependents"), with their status and
\* stored confidence
Companions ==
    {[n |-> 0, kind |-> "deps", status |-> "completed", confidence |-> 80]}
    \cup {[n |-> n, kind |-> "deps", status |-> c[1], confidence |-> c[2]] :
            n \in {1, 3, MaxDeps},
            c \in {<<"pending", 80>>, <<"pending", 40>>, <<"completed", 40>>}}
    \cup {[n |-> n, kind |-> "dependents", status |-> "completed", confidence |-> 80] :
            n \in {1, MaxDeps}}

ScoredTaskIds == 1..(MaxDeps + 1)

ScoredTasks(priority, due, age, status, comp) ==
    [t \in ScoredTaskIds |->
        IF t = 1
        THEN [NewTask("t", priority, StartTime + due, 3, 3, StartTime - age)
                 EXCEPT !.status = status,
                        !.dependencies = IF comp.kind = "deps" THEN 2..(comp.n + 1) ELSE {}]
        ELSE [NewTask("t", "medium", StartTime + 200, 3, 3, StartTime - 72)
                 EXCEPT !.status = comp.status,
                        !.completed_at = IF comp.status = "completed" THEN StartTime - 1
                                         ELSE NULL,
                        !.confidence_score = comp.confidence,
                        !.dependencies = IF comp.kind = "dependents" /\ t <= comp.n + 1
                                         THEN {1} ELSE {}]]

NoCompanion == CHOOSE c \in Companions : c.n = 0

\* the stores of the model: every due date, priority and status for a task
\* on its own; the ages with the extremes of the other inputs; the companions
\* with the priorities and due dates that reach the caps and the clamps; a
\* task that gets one day older with the tick of the clock
ScoredStores ==
    {ScoredTasks(priority, due, 72, status, NoCompanion) :
        priority \in TaskPriority, due \in DueOffsets2,
        status \in {"pending", "in_progress"}}
    \cup {ScoredTasks(priority, due, age, "pending", comp) :
            priority \in {"low", "critical"}, due \in {-2, 168}, age \in AgeOffsets,
            comp \in {c \in Companions : c.n = 0 \/ (c.kind = "dependents" /\ c.n = MaxDeps)}}
    \cup {ScoredTasks(priority, due, 72, "pending", comp) :
            priority \in {"medium", "critical"}, due \in {-2, 20, 168},
            comp \in {c \in Companions : c.n > 0}}
    \cup {ScoredTasks("medium", due, 71, "in_progress", NoCompanion) : due \in {9, 168}}

InitP ==
    /\ InitStore
    /\ SchedulerRunning
    /\ users \in {u \in InitUsers : u[1].is_active /\ u[2].is_active}
    /\ autoflush = FALSE
    /\ notifs = <<>>
    /\ attempts = <<>>
    /\ tasks \in ScoredStores

ScoringRunners == {<<PlanningAgentName, "timer">>, <<RiskAgentName, "timer">>}

NextP ==
    \/ Tick
    \/ Cardinality(RunningJobs) < MaxWorkers /\ PlanningBegin("timer") /\ UNCHANGED loop
    \/ Cardinality(RunningJobs) < MaxWorkers /\ RiskBegin("timer") /\ UNCHANGED loop
    \/ \E r \in ScoringRunners : RunnerStep(r)

SpecP == InitP /\ [][NextP]_vars

\* a few of the stores, for the properties that compare two evaluations
RescoredStores ==
    {ScoredTasks("high", due, 72, "pending", comp) :
        due \in {20, 168}, comp \in {c \in Companions : c.n \in {0, MaxDeps}}}

InitQ ==
    /\ InitStore
    /\ SchedulerRunning
    /\ users \in {u \in InitUsers : u[1].is_active /\ u[2].is_active}
    /\ autoflush = FALSE
    /\ notifs = <<>>
    /\ attempts = <<>>
    /\ tasks \in RescoredStores

SpecQ == InitQ /\ [][NextP]_vars

----------------------------------------------------------------------------
(* Properties of the scoring functions *)

\* the rows of task.dependencies in the store, in id order
DependencyRows(t) ==
    LET ids == SortedSeq(tasks[t].dependencies \cap DOMAIN tasks)
    IN  [i \in DOMAIN ids |-> tasks[ids[i]]]

\* what calculate_priority_score returns for task t now
PriorityNow(t) ==
    calculate_priority_score(tasks[t], Cardinality(dependent_tasks(t)), now)

\* what calculate_confidence_score returns for task t now
ConfidenceNow(t) == calculate_confidence_score(tasks[t], DependencyRows(t), now)

\* C21: every priority score and confidence score that a cycle has got from
\* the scoring functions, held in its session or stored, lies in [0, 100].
ScoresWithinBounds ==
    \A t \in DOMAIN tasks :
        /\ tasks[t].priority_score \in 0..100
        /\ tasks[t].confidence_score \in 0..100
        /\ \A r \in ScoringRunners :
              t \in DOMAIN sess[r].tobj =>
                /\ sess[r].tobj[t].priority_score \in 0..100
                /\ sess[r].tobj[t].confidence_score \in 0..100

\* C21, the part that holds: the confidence score is always in [0, 100] and
\* the priority score never exceeds 100.
ScoresWithinClamps ==
    \A t \in DOMAIN tasks :
        /\ PriorityNow(t) <= 100
        /\ ConfidenceNow(t) \in 0..100
        /\ tasks[t].priority_score <= 100
        /\ tasks[t].confidence_score \in 0..100

\* a planning cycle has stored a negative priority score
NegativePriorityStored == \E t \in DOMAIN tasks : tasks[t].priority_score < 0

\* the priority score as the specification states it
StatedUrgency(hours_to_due) ==
    CASE hours_to_due < 0 -> 30
      [] hours_to_due >= 0 /\ hours_to_due < 24 -> 25
      [] hours_to_due >= 24 /\ hours_to_due < 48 -> 20
      [] hours_to_due >= 48 /\ hours_to_due < 72 -> 15
      [] hours_to_due >= 72 /\ hours_to_due < 168 -> 10
      [] OTHER -> 0

StatedLevel(priority) ==
    CASE priority = "critical" -> 25
      [] priority = "high" -> 20
      [] priority = "medium" -> 10
      [] priority = "low" -> 5

StatedPriorityScore(t) ==
    LET dependentCount == Cardinality({u \in DOMAIN tasks : t \in tasks[u].dependencies})
        ageDays == (now - tasks[t].created_at) \div 24
    IN  Min(100, 50 + StatedUrgency(tasks[t].due_date - now) + StatedLevel(tasks[t].priority)
                 + Min(5 * dependentCount, 15) + Min(ageDays, 10))

\* the task of the specification's example: due in 20 hours, high priority, no
\* dependents, created 3 days ago
IsExampleTask(t) ==
    /\ tasks[t].due_date - now = 20
    /\ tasks[t].priority = "high"
    /\ dependent_tasks(t) = {}
    /\ now - tasks[t].created_at = 72

\* C22: for every task and instant the priority score is min(100, 50 + urgency
\* + level + min(5 * dependentCount, 15) + min(ageDays, 10)) with the stated
\* urgency buckets and levels; the example task scores 98.
PriorityScoreAsStated ==
    \A t \in DOMAIN tasks :
        /\ PriorityNow(t) = StatedPriorityScore(t)
        /\ IsExampleTask(t) => PriorityNow(t) = 98

\* a planning cycle has stored the example task's score
ExampleScored ==
    \E t \in DOMAIN tasks : IsExampleTask(t) /\ tasks[t].priority_score = 98

\* the confidence score as the specification states it
StatedTimePenalty(hours_to_due) ==
    CASE hours_to_due < 0 -> 40
      [] hours_to_due >= 0 /\ hours_to_due < 8 -> 30
      [] hours_to_due >= 8 /\ hours_to_due < 24 -> 20
      [] hours_to_due >= 24 /\ hours_to_due < 48 -> 10
      [] OTHER -> 0

StatedConfidenceScore(t) ==
    LET incompleteDeps == {d \in tasks[t].dependencies \cap DOMAIN tasks :
                              tasks[d].status # "completed"}
        riskyDeps == {d \in incompleteDeps : tasks[d].confidence_score < 50}
        level == CASE tasks[t].priority = "critical" -> 10
                   [] tasks[t].priority = "high" -> 5
                   [] OTHER -> 0
        notStarted == IF /\ tasks[t].status = "pending"
                         /\ tasks[t].due_date - now < 2 * 24
                         /\ tasks[t].priority \in {"high", "critical"}
                      THEN 15 ELSE 0
        raw == 100 - StatedTimePenalty(tasks[t].due_date - now)
                   - Min(10 * Cardinality(incompleteDeps), 30)
                   - 10 * Cardinality(riskyDeps) - level - notStarted
    IN  IF raw < 0 THEN 0 ELSE IF raw > 100 THEN 100 ELSE raw

DependencyRowsSeen(t, objs) ==
    LET ids == SortedSeq(tasks[t].dependencies \cap DOMAIN tasks)
    IN  [i \in DOMAIN ids |->
            IF ids[i] \in DOMAIN objs /\ ids[i] < t THEN objs[ids[i]] ELSE tasks[ids[i]]]

\* the value a loop leaves in the session for a stored score old and a newly
\* computed score new under the materiality threshold
KeptOrOverwritten(old, new, threshold) ==
    IF new - old > threshold \/ old - new > threshold THEN new ELSE old

\* C30: the loop of a planning cycle replaces a task's priority_score by the
\* newly computed score exactly when the two differ by more than 1, and the
\* loop of a risk cycle replaces confidence_score exactly when they differ by
\* more than 2; the cycle's commit stores exactly the session's scores, so
\* that after the commit every task of the cycle has a stored score within 1
\* (priority) or 2 (confidence) of the score the cycle computed.
ScoresOverwrittenOnMaterialChange ==
    [][ LET p == <<PlanningAgentName, "timer">>
            k == <<RiskAgentName, "timer">>
        IN  /\ (sess[p].pc = "idle" /\ sess'[p].pc = "loaded") =>
                 \A t \in ActiveTasks :
                    /\ sess'[p].tobj[t].priority_score =
                          KeptOrOverwritten(tasks[t].priority_score, PriorityNow(t), 1)
                    /\ sess'[p].tobj[t].priority_score - PriorityNow(t) \in -1..1
            /\ (sess[k].pc = "idle" /\ sess'[k].pc = "loaded") =>
                 \A t \in ActiveTasks :
                    LET computed == calculate_confidence_score(tasks[t],
                                        DependencyRowsSeen(t, sess'[k].tobj), now)
                    IN  /\ sess'[k].tobj[t].confidence_score =
                              KeptOrOverwritten(tasks[t].confidence_score, computed, 2)
                        /\ sess'[k].tobj[t].confidence_score - computed \in -2..2
            /\ (sess[p].pc = "loaded" /\ sess'[p].pc = "committed") =>
                 \A t \in DOMAIN sess[p].tobj :
                    /\ tasks'[t].priority_score = sess[p].tobj[t].priority_score
                    /\ sess[p].tobj[t].priority_score = sess[p].tload[t].priority_score
                          => tasks'[t].priority_score = tasks[t].priority_score
            /\ (sess[k].pc = "loaded" /\ sess'[k].pc = "committed") =>
                 \A t \in DOMAIN sess[k].tobj :
                    /\ tasks'[t].confidence_score = sess[k].tobj[t].confidence_score
                    /\ sess[k].tobj[t].confidence_score = sess[k].tload[t].confidence_score
                          => tasks'[t].confidence_score = tasks[t].confidence_score
      ]_vars

\* a planning cycle has committed with a task whose computed score is 1 above
\* the stored one, which it kept, after a cycle that had overwritten it
ScoreKeptWithinThreshold ==
    /\ sess[<<PlanningAgentName, "timer">>].pc = "committed"
    /\ started[PlanningAgentName] = 2
    /\ \E t \in ActiveTasks :
          /\ PriorityNow(t) = tasks[t].priority_score + 1
          /\ tasks[t].priority_score # DEFAULT_PRIORITY_SCORE

\* the step is the evaluation of the scores by cycle r: run() from its query
\* to the end of its loop
EvaluationStep(r) == sess[r].pc = "idle" /\ sess'[r].pc \in {"loaded", "handler"}

----------------------------------------------------------------------------
(* Properties of the dispatcher's steps *)

RemindersForWholeWindow ==
    [][ \A r \in {<<NotificationAgentName, c>> : c \in Contexts} :
          (sess[r].pc = "idle" /\ sess'[r].pc = "loaded") =>
             \A t \in ReminderTasks : \A j \in DOMAIN REMINDER_HOURS :
                \E row \in Range(notifs) \cup Range(sess'[r].newN) :
                   /\ row.type = "reminder"
                   /\ row.task_id = t
                   /\ row.hours = REMINDER_HOURS[j]
                   /\ row.scheduled_at = tasks[t].due_date - REMINDER_HOURS[j]
      ]_vars

\* the notification objects of cycle r's session after its three steps, for
\* the rows of the store and, after them, the objects the cycle has added
RowsAfter(r) ==
    [i \in 1..(Len(notifs) + Len(sess'[r].newN)) |->
        IF i \in DOMAIN sess'[r].nobj THEN sess'[r].nobj[i]
        ELSE IF i <= Len(notifs) THEN notifs[i]
        ELSE sess'[r].newN[i - Len(notifs)]]

\* the same rows before the send-pending step
RowsBefore(r) ==
    [i \in 1..(Len(notifs) + Len(sess'[r].newN)) |->
        IF i <= Len(notifs) THEN notifs[i]
        ELSE [sess'[r].newN[i - Len(notifs)] EXCEPT
                 !.status = "pending", !.retry_count = 0, !.sent_at = NULL]]

SameDelivery(a, b) ==
    a.status = b.status /\ a.retry_count = b.retry_count /\ a.sent_at = b.sent_at

\* the row was sent by the send-pending step
SentByStep(pre, post) ==
    post.status = "sent" /\ post.sent_at = now /\ post.retry_count = pre.retry_count

\* the delivery failed in the send-pending step
FailedByStep(pre, post) ==
    post.status = "failed" /\ post.retry_count = pre.retry_count + 1

\* the delivery failed in the send-pending step and the retry step of the same
\* cycle has taken the failed row up
FailedThenRetried(pre, post) ==
    /\ autoflush
    /\ pre.retry_count + 1 < pre.max_retries
    /\ \/ post.status = "sent" /\ post.sent_at = now
             /\ post.retry_count = pre.retry_count + 1
       \/ post.status \in {"retrying", "failed"}
             /\ post.retry_count = pre.retry_count + 2

----------------------------------------------------------------------------
(* The escalation decision and the escalation target over bounded inputs:   *)
(* tasks for every combination of triggers, users of every role, active or  *)
(* not, and timer-fired escalation cycles                                   *)

\* [overdue, low, stale]: a task that is due 5 hours before the start or 100
\* hours after it, whose confidence is 20 or 80, and that is in progress since
\* 3 days or pending
DecisionTask(overdue, low, stale) ==
    [NewTask("t", "medium", IF overdue THEN StartTime - 5 ELSE StartTime + 100, 3, 3,
             StartTime - 72)
        EXCEPT !.status = IF stale THEN "in_progress" ELSE "pending",
               !.confidence_score = IF low THEN 20 ELSE 80]

\* every combination of the triggers, and two tasks that one hour brings to a
\* trigger: due at the start, and in progress since one hour less than 3 days
DecisionTasks ==
    {DecisionTask(o, l, s) : o \in BOOLEAN, l \in BOOLEAN, s \in BOOLEAN}
    \cup {[DecisionTask(FALSE, FALSE, FALSE) EXCEPT !.due_date = StartTime],
          [DecisionTask(FALSE, FALSE, TRUE) EXCEPT !.updated_at = StartTime - 71]}

\* users 1 (admin) and 2 (manager) as init_database creates them, user 3 with
\* the role user or manager; each of them active or not
DecisionUsers ==
    {[u \in UserIds |->
        [role |-> IF u = 1 THEN "admin" ELSE IF u = 2 THEN "manager" ELSE third,
         is_active |-> active[u]]] :
     third \in {"user", "manager"}, active \in [UserIds -> BOOLEAN]}

InitX ==
    /\ InitStore
    /\ SchedulerRunning
    /\ notifs = <<>>
    /\ attempts = <<>>
    /\ autoflush = FALSE
    /\ users \in DecisionUsers
    /\ \E first \in DecisionTasks,
          second \in {DecisionTask(FALSE, FALSE, FALSE), DecisionTask(TRUE, TRUE, FALSE)} :
          tasks = [t \in TaskIds |-> IF t = 1 THEN first ELSE second]

NextX ==
    \/ Tick
    \/ EscalationBegin("timer") /\ UNCHANGED loop
    \/ RunnerStep(<<EscalationAgentName, "timer">>)

SpecX == InitX /\ [][NextX]_vars

\* the first trigger that holds for a task at an instant, "" when none does
StatedTrigger(task, at) ==
    CASE task.due_date < at -> "overdue"
      [] ~(task.due_date < at) /\ task.confidence_score < 30 -> "low_confidence"
      [] /\ ~(task.due_date < at)
         /\ ~(task.confidence_score < 30)
         /\ task.status = "in_progress"
         /\ at - task.updated_at >= 3 * 24 -> "no_progress"
      [] OTHER -> ""

\* the step is the loop of the timer-fired escalation cycle, run to its end
DecisionStep ==
    LET r == <<EscalationAgentName, "timer">> IN
    sess[r].pc = "idle" /\ sess'[r].pc = "loaded"

\* the tasks the loop of the step has escalated
EscalatedByStep ==
    LET r == <<EscalationAgentName, "timer">> IN
    {t \in DOMAIN sess'[r].tobj : sess'[r].tobj[t].is_escalated}

\* C28: a cycle escalates a task that is neither escalated nor completed
\* exactly when one of the triggers holds for it (and a target exists), with
\* the reason of the first trigger that holds in the order due date in the
\* past, confidence below 30, in progress without an update for 3 days; and
\* no step sets is_escalated on a task for which none held when it was read.
EscalationDecisionAsStated ==
    [][ LET r == <<EscalationAgentName, "timer">> IN
        /\ DecisionStep =>
              \A t \in DOMAIN tasks :
                 /\ t \in EscalatedByStep <=>
                       /\ ~tasks[t].is_escalated
                       /\ tasks[t].status \in {"pending", "in_progress", "overdue"}
                       /\ StatedTrigger(tasks[t], now) # ""
                       /\ find_manager_to_escalate_to # NULL
                 /\ t \in EscalatedByStep =>
                       \E i \in DOMAIN sess'[r].newAud :
                          /\ sess'[r].newAud[i].entity_id = t
                          /\ sess'[r].newAud[i].details = StatedTrigger(tasks[t], now)
        /\ \A t \in DOMAIN tasks :
              (~tasks[t].is_escalated /\ tasks'[t].is_escalated) =>
                 /\ t \in DOMAIN sess[r].tload
                 /\ StatedTrigger(sess[r].tload[t], now) # ""
      ]_vars

\* a cycle has escalated, for being overdue, a task whose confidence is below
\* 30 as well, and has left alone a task without any trigger
OverdueBeforeLowConfidence ==
    LET r == <<EscalationAgentName, "timer">> IN
    /\ sess[r].pc = "loaded"
    /\ \E t \in DOMAIN sess[r].tobj :
          /\ sess[r].tobj[t].is_escalated
          /\ sess[r].tload[t].confidence_score < 30
          /\ \E i \in DOMAIN sess[r].newAud :
                sess[r].newAud[i].entity_id = t /\ sess[r].newAud[i].details = "overdue"
    /\ \E u \in DOMAIN sess[r].tobj : ~sess[r].tobj[u].is_escalated

\* the target as the specification states it: the first active manager, else
\* the first active admin
StatedTargets ==
    LET managers == {u \in DOMAIN users : users[u].is_active /\ users[u].role = "manager"}
        admins == {u \in DOMAIN users : users[u].is_active /\ users[u].role = "admin"}
    IN  IF managers # {} THEN {u \in managers : \A v \in managers : u <= v}
        ELSE {u \in admins : \A v \in admins : u <= v}

\* C29: every task a cycle escalates gets as escalated_to the first active
\* manager or, when there is none, the first active admin, never an inactive
\* user or one with the role user; the commit stores that id.
EscalationTargetActive ==
    [][ LET r == <<EscalationAgentName, "timer">> IN
        /\ DecisionStep =>
              \A t \in EscalatedByStep :
                 /\ sess'[r].tobj[t].escalated_to \in StatedTargets
                 /\ users[sess'[r].tobj[t].escalated_to].is_active
                 /\ users[sess'[r].tobj[t].escalated_to].role \in {"manager", "admin"}
        /\ \A t \in DOMAIN tasks :
              (~tasks[t].is_escalated /\ tasks'[t].is_escalated) =>
                 /\ tasks'[t].escalated_to \in StatedTargets
                 /\ users[tasks'[t].escalated_to].is_active
      ]_vars

\* a task was escalated to the admin while the only managers are inactive
EscalatedToAdmin ==
    \E t \in DOMAIN tasks :
       /\ tasks[t].is_escalated
       /\ users[tasks[t].escalated_to].role = "admin"
       /\ \E u \in DOMAIN users : users[u].role = "manager" /\ ~users[u].is_active

----------------------------------------------------------------------------
(* The scheduler's status report (scheduler.py, GET /api/scheduler/status)  *)

\* the ids of the jobs setup_scheduler adds, in the order it adds them
JobIds == <<"planning_agent", "risk_agent", "escalation_agent", "notification_agent">>

\* get_scheduler_status: `if not scheduler` tests the module's global, which
\* setup_scheduler assigns and nothing resets; get_jobs() of a scheduler
\* that was shut down lists its pending jobs, of which start() left none
get_scheduler_status ==
    IF scheduler = "none"
    THEN [status |-> "not running", jobs |-> <<>>]
    ELSE [status |-> "running", jobs |-> IF scheduler = "running" THEN JobIds ELSE <<>>]

\* C40: get_scheduler_status reports "running" only while the scheduler has
\* been set up and not yet shut down: "not running" with no jobs before
\* setup_scheduler, the four agent jobs after it, and no "running" after
\* shutdown_scheduler.
StatusRunningOnlyWhileRunning ==
    /\ scheduler = "none" => get_scheduler_status = [status |-> "not running", jobs |-> <<>>]
    /\ scheduler = "running" => get_scheduler_status = [status |-> "running", jobs |-> JobIds]
    /\ get_scheduler_status.status = "running" => scheduler = "running"

\* the report before and while the scheduler runs
StatusBeforeShutdown ==
    scheduler # "stopped" =>
        get_scheduler_status =
            IF scheduler = "none" THEN [status |-> "not running", jobs |-> <<>>]
            ELSE [status |-> "running", jobs |-> JobIds]

----------------------------------------------------------------------------
(* Application startup on a store of any content: init_database (main.py)   *)

\* the three users init_database adds: admin, manager, user, all active
DefaultUsers ==
    [u \in UserIds |->
        [role |-> IF u = 1 THEN "admin" ELSE IF u = 2 THEN "manager" ELSE "user",
         is_active |-> TRUE]]

\* the AgentStatus rows init_database adds
DefaultAgentStatus == [a \in AgentNames |-> NewAgentStatus]

\* db.query(User).filter(email == "admin@erp.com").first(); user 1 is that row
AdminExists == 1 \in DOMAIN users

\* init_database, called by lifespan before setup_scheduler.  Everything it
\* creates is inside `if not admin:`: the users and their commit, then the
\* four AgentStatus rows and their commit.  An exception of either commit
\* leaves init_database (it has no except clause) and ends the startup.
init_database ==
    /\ loop.job = "init"
    /\ \/ /\ AdminExists
          /\ StoreAnswers
          /\ loop' = [loop EXCEPT !.job = "idle"]
          /\ UNCHANGED <<users, health>>
       \/ /\ ~AdminExists
          /\ StoreAnswers
          /\ DOMAIN health = {}
          /\ users' = DefaultUsers
          /\ health' = DefaultAgentStatus
          /\ loop' = [loop EXCEPT !.job = "idle"]
       \/ \* the query or the commit of the users fails
          /\ StoreFails
          /\ loop' = [loop EXCEPT !.job = "crashed"]
          /\ UNCHANGED <<users, health>>
       \/ \* the commit of the AgentStatus rows fails, after the users' one;
          \* agent_name is unique, so it also fails when a row is there already
          /\ ~AdminExists
          /\ \/ StoreFails
             \/ StoreAnswers /\ DOMAIN health # {}
          /\ users' = DefaultUsers
          /\ loop' = [loop EXCEPT !.job = "crashed"]
          /\ UNCHANGED health
    /\ UNCHANGED <<now, tasks, notifs, audits, sess, started, autoflush, events, attempts, scheduler>>

\* the application is started again after a startup that failed
Restart ==
    /\ loop.job = "crashed"
    /\ loop' = [loop EXCEPT !.job = "init"]
    /\ UNCHANGED <<now, users, tasks, notifs, audits, health, sess, started, autoflush, events,
                   attempts, faults, scheduler>>

\* an empty store, as create_all leaves it on the first start
InitI ==
    /\ now = StartTime
    /\ users = <<>>
    /\ tasks = <<>>
    /\ notifs = <<>>
    /\ attempts = <<>>
    /\ audits = <<>>
    /\ health = <<>>
    /\ sess = [r \in Runners |-> IdleSess]
    /\ started = [a \in AgentNames |-> 0]
    /\ faults = 0
    /\ events = <<>>
    /\ autoflush = FALSE
    /\ scheduler = "none"
    /\ loop = [IdleLoop EXCEPT !.job = "init"]

NextI ==
    \/ init_database
    \/ Restart
    \/ Tick
    \/ setup_scheduler
    \/ StartupRun
    \/ \E name \in AgentNameInputs : run_agent_manually(name)
    \/ \E a \in AgentNames : RunnerStep(<<a, "manual">>)
    \/ shutdown_scheduler

SpecI == InitI /\ [][NextI]_vars

\* C33: once init_database has completed there is exactly one health record
\* for each of the four agent names, whatever the store held before (also
\* the default admin without any health record), so every later cycle finds
\* its record.
HealthRecordPerAgent ==
    loop.job \notin {"init", "crashed"} => DOMAIN health = AgentNames

\* a cycle reaches its health update and finds no record of its agent
CycleFindsNoRecord ==
    \E r \in Runners : sess[r].pc \in {"committed", "handler"} /\ r[1] \notin DOMAIN health

\* the first start of the application on an empty store
FirstStartCreatesRecords ==
    [][(loop.job = "init" /\ loop'.job = "idle" /\ ~AdminExists) =>
          /\ DOMAIN health' = AgentNames
          /\ users' = DefaultUsers]_vars

----------------------------------------------------------------------------
(* Dependency analysis (PlanningAgent.analyze_dependencies) and bottleneck  *)
(* report (RiskAgent.identify_bottlenecks).  Both only read; what the       *)
(* caller gets is kept in loop.reply as a record [call, task, result].      *)

\* an analysis that follows the dependencies of the dependencies as well
analyze_dependencies_two_levels(t) ==
    LET deps == SortedSeq(tasks[t].dependencies \cup
                          UNION {tasks[d].dependencies : d \in tasks[t].dependencies})
        Incomplete(d) == tasks[d].status # "completed"
        blockers == SelectSeq(deps, Incomplete)
        blocked == SortedSeq(dependent_tasks(t))
    IN  [ has_blockers |-> \E i \in DOMAIN deps : Incomplete(deps[i]),
          blocked_by |-> [i \in DOMAIN blockers |->
                            [id |-> blockers[i], title |-> tasks[blockers[i]].title,
                             status |-> tasks[blockers[i]].status]],
          blocking |-> [i \in DOMAIN blocked |->
                          [id |-> blocked[i], title |-> tasks[blocked[i]].title]],
          ready_to_start |-> ~\E i \in DOMAIN deps : Incomplete(deps[i]) ]

\* an analysis that walks down the dependencies to the tasks without any,
\* keeping no record of the tasks it has visited: on a cycle it never comes
\* back with a result (cycles of one or two tasks)
analyze_dependencies_to_the_leaves(t) ==
    IF \E d \in {t} \cup tasks[t].dependencies :
          \/ d \in tasks[d].dependencies
          \/ \E e \in tasks[d].dependencies : d \in tasks[e].dependencies
    THEN [error |-> "RecursionError"]
    ELSE analyze_dependencies_two_levels(t)

\* PlanningAgent.analyze_dependencies(task): one loop over task.dependencies
\* and one over task.dependent_tasks, rows in primary-key order
analyze_dependencies(t) ==
    LET deps == SortedSeq(tasks[t].dependencies)
        Incomplete(d) == tasks[d].status # "completed"
        blockers == SelectSeq(deps, Incomplete)
        blocked == SortedSeq(dependent_tasks(t))
    IN  [ has_blockers |-> \E i \in DOMAIN deps : Incomplete(deps[i]),
          blocked_by |-> [i \in DOMAIN blockers |->
                            [id |-> blockers[i], title |-> tasks[blockers[i]].title,
                             status |-> tasks[blockers[i]].status]],
          blocking |-> [i \in DOMAIN blocked |->
                          [id |-> blocked[i], title |-> tasks[blocked[i]].title]],
          ready_to_start |-> ~\E i \in DOMAIN deps : Incomplete(deps[i]) ]

\* a report that keeps the order of the query
unsorted_bottlenecks(s) == s

RECURSIVE sorted_by_blocking_count(_)
\* sorted(bottlenecks, key=blocking_count, reverse=True): a stable sort, the
\* entries of equal key stay in the order of the list
sorted_by_blocking_count(s) ==
    IF s = <<>> THEN <<>>
    ELSE LET rest == sorted_by_blocking_count(Prefix(s, Len(s) - 1))
             x == s[Len(s)]
             k == Cardinality({i \in DOMAIN rest :
                                 rest[i].blocking_count >= x.blocking_count})
         IN  Prefix(rest, k) \o <<x>> \o SubSeq(rest, k + 1, Len(rest))

\* the entry identify_bottlenecks appends for task t
BottleneckEntry(t) ==
    [ task_id |-> t, title |-> tasks[t].title,
      blocking_count |-> Cardinality(dependent_tasks(t)),
      confidence_score |-> tasks[t].confidence_score, status |-> tasks[t].status ]

\* RiskAgent.identify_bottlenecks: the tasks not completed, blocked_count >= 2
identify_bottlenecks ==
    LET rows == SortedSeq({t \in DOMAIN tasks : tasks[t].status # "completed"})
        Blocking2(t) == Cardinality(dependent_tasks(t)) >= 2
        kept == SelectSeq(rows, Blocking2)
    IN  sorted_by_blocking_count([i \in DOMAIN kept |-> BottleneckEntry(kept[i])])

\* nobody has called either function yet
NoReply == [call |-> "none"]

\* a caller on the event loop thread analyses task t
AnalyzeCall(t) ==
    /\ EventLoopFree
    /\ t \in DOMAIN tasks
    /\ loop' = [loop EXCEPT !.reply = [call |-> "analyze_dependencies", task |-> t,
                                        result |-> analyze_dependencies(t)]]
    /\ UNCHANGED <<now, users, tasks, notifs, audits, health, sess, started, autoflush, events,
                   attempts, faults, scheduler>>

\* a caller on the event loop thread asks for the bottleneck report
BottleneckCall ==
    /\ EventLoopFree
    /\ loop' = [loop EXCEPT !.reply = [call |-> "identify_bottlenecks", task |-> NULL,
                                        result |-> identify_bottlenecks]]
    /\ UNCHANGED <<now, users, tasks, notifs, audits, health, sess, started, autoflush, events,
                   attempts, faults, scheduler>>

\* create_task takes its dependencies from the tasks that exist already: a
\* task depends on tasks of lower id only
CreatableGraphs ==
    {g \in [ScoredTaskIds -> SUBSET ScoredTaskIds] : \A t \in ScoredTaskIds : \A d \in g[t] : d < t}

\* five pending tasks with any dependencies create_task can give them
InitG ==
    /\ InitStore
    /\ scheduler = "running"
    /\ loop = [IdleLoop EXCEPT !.ran = StartupOrder, !.reply = NoReply]
    /\ users = DefaultUsers
    /\ autoflush = FALSE
    /\ notifs = <<>>
    /\ attempts = <<>>
    /\ \E g \in CreatableGraphs :
         tasks = [t \in ScoredTaskIds |->
                    [NewTask("t", "medium", StartTime + 100, 3, 3, StartTime)
                        EXCEPT !.dependencies = g[t]]]

NextG ==
    \/ \E t \in ScoredTaskIds : AnalyzeCall(t)
    \/ BottleneckCall
    \/ \E t \in ScoredTaskIds, st \in StatusInputs : update_task_status(t, st, tasks[t].assigned_to)

SpecG == InitG /\ [][NextG]_vars

\* the edges of task_dependencies that start or end at t
DirectDependencies(t) == tasks[t].dependencies

DirectDependents(t) == {u \in DOMAIN tasks : t \in tasks[u].dependencies}

Ids(s) == {s[i].id : i \in DOMAIN s}

\* C34: the analysis of a task changes nothing in the store and is one level
\* deep: blocked_by is exactly the direct dependencies that are not
\* completed, blocking exactly the direct dependents, has_blockers holds iff
\* blocked_by is not empty and ready_to_start is its negation; nothing
\* reached only through another task is in the result.
AnalysisOneLevel ==
    [][(loop'.reply # loop.reply /\ loop'.reply.call = "analyze_dependencies") =>
         LET t == loop'.reply.task
             res == loop'.reply.result
         IN  /\ UNCHANGED <<tasks, notifs, audits, health, users>>
             /\ Ids(res.blocked_by) =
                    {d \in DirectDependencies(t) : tasks[d].status # "completed"}
             /\ Len(res.blocked_by) = Cardinality(Ids(res.blocked_by))
             /\ \A i \in DOMAIN res.blocked_by :
                    res.blocked_by[i].status = tasks[res.blocked_by[i].id].status
             /\ Ids(res.blocking) = DirectDependents(t)
             /\ Len(res.blocking) = Cardinality(Ids(res.blocking))
             /\ res.has_blockers = (res.blocked_by # <<>>)
             /\ res.ready_to_start = ~res.has_blockers]_vars

\* the analysis of the middle task of a chain of three incomplete tasks has
\* been returned: it has one blocker and one dependent
ChainAnalysed ==
    /\ loop.reply.call = "analyze_dependencies"
    /\ \E a, b, c \in DOMAIN tasks :
         /\ loop.reply.task = b
         /\ Cardinality({a, b, c}) = 3
         /\ a \in tasks[b].dependencies /\ b \in tasks[c].dependencies
         /\ \E d \in tasks[a].dependencies : d \notin tasks[b].dependencies
         /\ tasks[a].status # "completed"
         /\ \E z \in tasks[b].dependencies : tasks[z].status = "completed"
         /\ Ids(loop.reply.result.blocked_by) = {a}
         /\ loop.reply.result.blocking # <<>>

\* the other tasks that t blocks: those that depend on it while it is not
\* completed
BlockedBy(t) ==
    IF tasks[t].status = "completed" THEN {} ELSE DirectDependents(t) \ {t}

\* C36: the bottleneck report contains exactly the tasks that block at least
\* 2 other tasks, each once and with its blocking count, ordered by blocking
\* count descending, tasks of equal count in the order of the store.
BottleneckReportAsStated ==
    [][(loop'.reply # loop.reply /\ loop'.reply.call = "identify_bottlenecks") =>
         LET rep == loop'.reply.result IN
         /\ {rep[i].task_id : i \in DOMAIN rep} =
                {t \in DOMAIN tasks : Cardinality(BlockedBy(t)) >= 2}
         /\ \A i \in DOMAIN rep : rep[i].blocking_count = Cardinality(BlockedBy(rep[i].task_id))
         /\ \A i, j \in DOMAIN rep :
              i < j => \/ rep[i].blocking_count > rep[j].blocking_count
                       \/ /\ rep[i].blocking_count = rep[j].blocking_count
                          /\ rep[i].task_id < rep[j].task_id]_vars

\* a report of three tasks has been returned: the one of highest count
\* first, although another precedes it in the store, then two of equal count
\* in store order; a completed task with two dependents is not in it
ReportReordered ==
    /\ loop.reply.call = "identify_bottlenecks"
    /\ Len(loop.reply.result) = 3
    /\ LET rep == loop.reply.result IN
         /\ rep[1].task_id > rep[2].task_id
         /\ rep[2].blocking_count = rep[3].blocking_count
         /\ rep[2].task_id < rep[3].task_id
    /\ \E t \in DOMAIN tasks :
         tasks[t].status = "completed" /\ Cardinality(DirectDependents(t)) >= 2

----------------------------------------------------------------------------
(* The analyses and the scoring cycles on dependency graphs of any shape    *)

\* task_dependencies is a plain association table: nothing in the schema
\* keeps a task from depending on itself or two tasks on each other
AnyGraphs == [TaskIds -> SUBSET TaskIds]

InitH ==
    /\ InitStore
    /\ scheduler = "running"
    /\ loop = [IdleLoop EXCEPT !.ran = StartupOrder, !.reply = NoReply]
    /\ users = DefaultUsers
    /\ autoflush = FALSE
    /\ notifs = <<>>
    /\ attempts = <<>>
    /\ \E g \in AnyGraphs, p \in {"medium", "critical"} :
         tasks = [t \in TaskIds |->
                    [NewTask("t", p, StartTime + 100, 3, 3, StartTime)
                        EXCEPT !.dependencies = g[t]]]

NextH ==
    \/ \E t \in TaskIds : AnalyzeCall(t)
    \/ BottleneckCall
    \/ Cardinality(RunningJobs) < MaxWorkers /\ PlanningBegin("timer") /\ UNCHANGED loop
    \/ Cardinality(RunningJobs) < MaxWorkers /\ RiskBegin("timer") /\ UNCHANGED loop
    \/ \E r \in ScoringRunners : RunnerStep(r)

SpecH == InitH /\ [][NextH]_vars

----------------------------------------------------------------------------
(* Scoring cycles racing with status updates of the users *)

\* task 1 is due in 8 hours; task 2 is overdue and critical, or completed
InitU ==
    /\ InitStore
    /\ SchedulerRunning
    /\ users = DefaultUsers
    /\ autoflush = FALSE
    /\ notifs = <<>>
    /\ attempts = <<>>
    /\ \E st \in StatusInputs :
         tasks = [t \in TaskIds |->
                    IF t = 1 THEN NewTask("t", "medium", StartTime + 8, 3, 3, StartTime - 30)
                    ELSE [NewTask("t", "critical", StartTime - 2, 2, 3, StartTime - 50)
                             EXCEPT !.status = st,
                                    !.completed_at = IF st = "completed" THEN StartTime - 1
                                                     ELSE NULL]]

NextU ==
    \/ Tick
    \/ Cardinality(RunningJobs) < MaxWorkers /\ PlanningBegin("timer") /\ UNCHANGED loop
    \/ Cardinality(RunningJobs) < MaxWorkers /\ RiskBegin("timer") /\ UNCHANGED loop
    \/ \E r \in ScoringRunners : RunnerStep(r)
    \/ \E t \in TaskIds, st \in StatusInputs : update_task_status(t, st, tasks[t].assigned_to)

SpecU == InitU /\ [][NextU]_vars

\* C31: no step of the planning or risk agent changes priority_score or
\* confidence_score of a task that is completed (or overdue or escalated) in
\* the store, also when a user completed it between the cycle's read and its
\* commit.
ScoresOfCompletedUntouched ==
    [][\A t \in DOMAIN tasks :
         tasks[t].status \in {"completed", "overdue", "escalated"} =>
            /\ tasks'[t].priority_score = tasks[t].priority_score
            /\ tasks'[t].confidence_score = tasks[t].confidence_score]_vars

\* the query of a scoring cycle returns pending and in_progress tasks only
ScoringReadsActiveOnly ==
    [][\A r \in ScoringRunners :
         (sess[r].pc = "idle" /\ sess'[r].pc = "loaded") =>
            \A t \in DOMAIN sess'[r].tobj : tasks[t].status \in {"pending", "in_progress"}]_vars

----------------------------------------------------------------------------
(* Order of a cycle's commits (checked on the event loop thread's cycles)   *)

\* the mutations session s has not committed
Pending(s) == s.tobj # s.tload \/ s.nobj # s.nload \/ s.newN # <<>> \/ s.newAud # <<>>

\* C32: a cycle's task, notification and audit mutations are committed
\* together, and last_run / tasks_processed of the agent's health record
\* change only in the step after that commit has succeeded: the record never
\* reflects a cycle whose mutations are not persisted.
HealthAfterCommit ==
    [][/\ \A r \in Runners :
            /\ (sess[r].pc = "loaded" /\ sess'[r].pc = "committed") =>
                  /\ tasks' = FlushTasks(sess[r])
                  /\ notifs' = FlushNotifs(sess[r])
                  /\ audits' = FlushAudits(sess[r])
            /\ (sess[r].pc = "loaded" /\ sess'[r].pc = "handler") =>
                  UNCHANGED <<tasks, notifs, audits, health>>
            /\ (sess[r].pc # "health" /\ sess'[r].pc = "health") =>
                  sess[r].pc = "committed" /\ ~Pending(sess[r])
       /\ \A a \in DOMAIN health :
            ( \/ health'[a].last_run # health[a].last_run
              \/ health'[a].tasks_processed # health[a].tasks_processed ) =>
                \E r \in Runners :
                    /\ r[1] = a
                    /\ sess[r].pc = "health" /\ sess'[r].pc = "idle"
                    /\ ~Pending(sess[r])
                    /\ UNCHANGED <<tasks, notifs, audits>>]_vars

\* a notification cycle's reminder is in the store and the agent's record
\* carries the cycle's last_run, while a cycle of another agent whose commit
\* failed has left errors_count and no last_run
HealthFollowsCommit ==
    /\ health[NotificationAgentName].last_run # NULL
    /\ notifs # <<>>
    /\ \E a \in AgentNames : health[a].errors_count > 0 /\ health[a].last_run = NULL

----------------------------------------------------------------------------
(* Change events (main.py's mapper listeners, websocket_manager.py) and the *)
(* read-flag operations (routers/notifications.py)                          *)

\* POST /api/notifications/mark-read: Query.update(), then db.commit().  A
\* bulk UPDATE loads no object, so no after_update listener is called.
mark_notifications_read(ids, user) ==
    /\ EventLoopFree
    /\ \E i \in ids : i \in DOMAIN notifs /\ notifs[i].user_id = user /\ ~notifs[i].is_read
    /\ notifs' = [i \in DOMAIN notifs |->
                    IF i \in ids /\ notifs[i].user_id = user
                    THEN [notifs[i] EXCEPT !.is_read = TRUE] ELSE notifs[i]]
    /\ events' = <<>>
    /\ UNCHANGED <<now, users, tasks, audits, health, sess, started, autoflush, attempts,
                   faults, scheduler, loop>>

\* POST /api/notifications/mark-all-read: the same for every unread row of
\* the user
mark_all_notifications_read(user) ==
    /\ EventLoopFree
    /\ \E i \in DOMAIN notifs : notifs[i].user_id = user /\ ~notifs[i].is_read
    /\ notifs' = [i \in DOMAIN notifs |->
                    IF notifs[i].user_id = user /\ ~notifs[i].is_read
                    THEN [notifs[i] EXCEPT !.is_read = TRUE] ELSE notifs[i]]
    /\ events' = <<>>
    /\ UNCHANGED <<now, users, tasks, audits, health, sess, started, autoflush, attempts,
                   faults, scheduler, loop>>

\* task 1 is due in 8 hours; task 2 is overdue and critical, which takes its
\* confidence below the threshold: the risk agent writes a score, an alert
\* and an audit entry
InitV ==
    /\ InitStore
    /\ SchedulerRunning
    /\ users = DefaultUsers
    /\ autoflush = FALSE
    /\ notifs = <<>>
    /\ attempts = <<>>
    /\ tasks = [t \in TaskIds |->
                  IF t = 1 THEN NewTask("t", "medium", StartTime + 8, 3, 3, StartTime - 30)
                  ELSE NewTask("t", "critical", StartTime - 2, 2, 3, StartTime - 50)]

\* the risk agent's timer job and its manual trigger, and the read-flag
\* requests of the users
NextV ==
    \/ TimerFires(RiskAgentName)
    \/ RunnerStep(<<RiskAgentName, "timer">>)
    \/ run_agent_manually("Risk")
    \/ RunnerStep(<<RiskAgentName, "manual">>)
    \/ \E u \in UserIds : mark_all_notifications_read(u)
    \/ \E u \in UserIds, i \in DOMAIN notifs : mark_notifications_read({i}, u)

SpecV == InitV /\ [][NextV]_vars

\* C37: every step that commits a change of a task row or a notification
\* row or appends an audit entry hands a change event for that row to the
\* event sink, and the events handed over are about rows the step has
\* committed; for the cycles of the scheduler's threads and for the
\* read-flag operations as for everything else.
EveryMutationHasEvent ==
    [][/\ \A t \in DOMAIN tasks' :
            (t \notin DOMAIN tasks \/ tasks'[t] # tasks[t]) =>
                task_after_change(t) \in Range(events')
       /\ \A i \in DOMAIN notifs' :
            (i \notin DOMAIN notifs \/ notifs'[i] # notifs[i]) =>
                notification_after_change(i) \in Range(events')
       /\ \A i \in DOMAIN audits' :
            i \notin DOMAIN audits => audit_log_after_insert(i) \in Range(events')
       /\ \A k \in DOMAIN events' :
            events' # events =>
               \/ events'[k].type = "TASK_UPDATE" /\ events'[k].id \in DOMAIN tasks'
               \/ events'[k].type = "NOTIFICATION_UPDATE" /\ events'[k].id \in DOMAIN notifs'
               \/ events'[k].type = "AUDIT_LOG" /\ events'[k].id \in DOMAIN audits']_vars

\* the same for the steps of the event loop thread other than the read-flag
\* operations: manual triggers of the agents
EventLoopMutationsHaveEvents ==
    [][(\A r \in Runners : r[2] = "timer" => sess'[r] = sess[r])
       /\ (\A i \in DOMAIN notifs : notifs'[i].is_read = notifs[i].is_read)
       => /\ \A t \in DOMAIN tasks' :
               tasks'[t] # tasks[t] => task_after_change(t) \in Range(events')
          /\ \A i \in DOMAIN notifs' :
               (i \notin DOMAIN notifs \/ notifs'[i] # notifs[i]) =>
                   notification_after_change(i) \in Range(events')
          /\ \A i \in DOMAIN audits' :
               i \notin DOMAIN audits => audit_log_after_insert(i) \in Range(events')]_vars

\* the read-flag operations alone
ReadFlagHasEvent ==
    [][\A i \in DOMAIN notifs :
         notifs'[i].is_read # notifs[i].is_read =>
            notification_after_change(i) \in Range(events')]_vars

----------------------------------------------------------------------------
(* High-risk alerts of the risk agent *)

\* the alert notifications / high_risk_detected entries about task t that a
\* step adds to the store
NewAlerts(t) ==
    {i \in DOMAIN notifs' : /\ i \notin DOMAIN notifs
                            /\ notifs'[i].type = "alert" /\ notifs'[i].task_id = t}

NewRiskAudits(t) ==
    {i \in DOMAIN audits' : /\ i \notin DOMAIN audits
                            /\ audits'[i].action = "high_risk_detected"
                            /\ audits'[i].entity_id = t}

\* C38: a step stores one alert notification and one high_risk_detected
\* entry for a task exactly when it takes the task's stored confidence from
\* at least 40 to below 40; a step that leaves the stored confidence below
\* 40 (or at 40 or above) stores neither.
AlertOncePerCrossing ==
    [][\A t \in DOMAIN tasks :
         LET crossing == /\ tasks[t].confidence_score >= LOW_CONFIDENCE_THRESHOLD
                         /\ tasks'[t].confidence_score < LOW_CONFIDENCE_THRESHOLD
         IN  /\ Cardinality(NewAlerts(t)) = IF crossing THEN 1 ELSE 0
             /\ Cardinality(NewRiskAudits(t)) = IF crossing THEN 1 ELSE 0]_vars

\* two alerts about one task are in the store
AlertTwice ==
    \E i, j \in DOMAIN notifs :
        i < j /\ notifs[i].type = "alert" /\ notifs[j].type = "alert"
              /\ notifs[i].task_id = notifs[j].task_id

----------------------------------------------------------------------------
(* A scoring cycle repeated at the same instant *)

\* three tasks with the dependencies create_task can give them (a task
\* depends on tasks created before it), all of one priority and due date:
\* overdue and critical takes a task's confidence below 50
ChainTaskIds == 1..(NumTasks + 1)

ChainStores ==
    {[t \in ChainTaskIds |->
        [NewTask("t", p, StartTime + due, 3, 3, StartTime - 30) EXCEPT !.dependencies = g[t]]] :
     p \in {"medium", "critical"}, due \in {-2, 100},
     g \in {h \in [ChainTaskIds -> SUBSET ChainTaskIds] :
               \A t \in ChainTaskIds : \A d \in h[t] : d < t}}

InitK ==
    /\ InitStore
    /\ SchedulerRunning
    /\ users = DefaultUsers
    /\ autoflush = FALSE
    /\ notifs = <<>>
    /\ attempts = <<>>
    /\ tasks \in ChainStores

SpecK == InitK /\ [][NextP]_vars

\* cycle r is the agent's second one, started at the instant its first one
\* finished, and the other scoring agent has not run: no task has changed
\* since the first cycle's commit
SecondRunSameInstant(r) ==
    /\ sess[r].pc = "idle"
    /\ started[r[1]] = 1
    /\ health[r[1]].last_run = now
    /\ \A q \in ScoringRunners : q[1] # r[1] => started[q[1]] = 0

\* C39: a second run of the planning agent (or of the risk agent) at the same
\* evaluation instant, with no change to any task since the first, writes no
\* score, appends no audit entry and creates no notification.
SecondRunWritesNothing ==
    [][\A r \in ScoringRunners :
         (SecondRunSameInstant(r) /\ sess'[r].pc = "loaded") =>
            /\ sess'[r].tobj = sess'[r].tload
            /\ sess'[r].newN = <<>>
            /\ sess'[r].newAud = <<>>]_vars

\* the risk agent's second run at the instant of its first has ended its
\* loop with nothing to write, on a store in which the first run took a
\* task and a task that depends on it below 50
SecondRunAfterRescoring ==
    /\ sess[<<RiskAgentName, "timer">>].pc = "loaded"
    /\ started[RiskAgentName] = 2
    /\ started[PlanningAgentName] = 0
    /\ health[RiskAgentName].last_run = now
    /\ sess[<<RiskAgentName, "timer">>].tobj = sess[<<RiskAgentName, "timer">>].tload
    /\ \E t, d \in DOMAIN tasks :
         /\ d \in tasks[t].dependencies
         /\ tasks[d].confidence_score < 50 /\ tasks[t].confidence_score < 50
    /\ notifs # <<>>

====
